---- MODULE Spec2Model ----
(***************************************************************************)
(* Model of the fiducial_vlam pose-estimation / map-update engine          *)
(* (fiducial_math.cpp: CvFiducialMath, SamFiducialMath, FiducialMath) and  *)
(* of the map-building node that drives it (VmapNode, main).               *)
(*                                                                         *)
(* Geometry is modelled in a one-dimensional translation group: a rigid    *)
(* transform is an integer, composition is +, inversion is unary minus.    *)
(* The camera projects a camera-frame point onto itself, so the image of a *)
(* marker whose pose in the camera frame is c is its four canonical        *)
(* corners shifted by c.                                                   *)
(***************************************************************************)
EXTENDS Integers, Sequences, FiniteSets, TLC

VARIABLES
  map,        \* the Map object: map_style, marker_length, markers (id -> Marker)
  map0,       \* the map as it was after construction
  last,       \* record of the last driver call (FiducialMath entry point)
  ncalls,     \* number of driver calls made so far
  node        \* state of the VmapNode and of the executor that spins it

vars == <<map, map0, last, ncalls, node>>

(***************************************************************************)
(* Bounds and input alphabets                                              *)
(***************************************************************************)
MaxBatch == 2            \* longest observation batch
MaxCalls == 2            \* driver calls per behaviour

Sightings == {<<0, 0>>, <<1, 2>>, <<2, 4>>}   \* <<id, camera-frame pose depicted>>
CameraPoses == {0}     \* valid t_map_camera values a caller may pass
OptOffsets == {0, 1}     \* displacement of the optimum from the initial estimate

marker_length == 2

MapStyles == {"pose", "covariance", "corners"}

(***************************************************************************)
(* TransformWithCovariance, Marker, Map                                    *)
(***************************************************************************)
ZeroCov == [k \in 1..36 |-> 0]

\* default-constructed TransformWithCovariance: not valid, identity transform
InvalidTWC == [valid |-> FALSE, tf |-> 0, cov |-> ZeroCov]

\* TransformWithCovariance(transform): valid, covariance zero
TWC(tf) == [valid |-> TRUE, tf |-> tf, cov |-> ZeroCov]

\* TransformWithCovariance(transform, cov)
TWCcov(tf, cov) == [valid |-> TRUE, tf |-> tf, cov |-> cov]

\* TransformWithCovariance::update_simple_average
update_simple_average(twc, other, count) ==
  [twc EXCEPT !.tf = (count * twc.tf + other.tf) \div (count + 1)]

\* Marker(id, t_map_marker): update count 1, not fixed
Marker(id, t_map_marker) ==
  [id |-> id, t_map_marker |-> t_map_marker, update_count |-> 1, is_fixed |-> FALSE]

\* Map(map_style, marker_length): no markers
NewMap(style, len) == [map_style |-> style, marker_length |-> len, markers |-> <<>>]

\* Map::find_marker: a null pointer when the id is not in the map
known(m, id) == id \in DOMAIN m.markers

\* Map::add_marker: a duplicate id is rejected
add_marker(m, marker) ==
  IF known(m, marker.id) THEN m
  ELSE [m EXCEPT !.markers =
          [i \in DOMAIN m.markers \cup {marker.id} |->
             IF i = marker.id THEN marker ELSE m.markers[i]]]

\* write through the Marker pointer that find_marker returned
put_marker(m, marker) == [m EXCEPT !.markers[marker.id] = marker]

\* Map::find_t_map_markers
find_t_map_markers(observations, m) ==
  [i \in 1..Len(observations) |->
     IF known(m, observations[i].id)
     THEN m.markers[observations[i].id].t_map_marker
     ELSE InvalidTWC]

(***************************************************************************)
(* Observations                                                            *)
(***************************************************************************)
\* canonical corners of a marker of side len, in the marker frame
append_corners_f_marker(len) ==
  LET h == len \div 2
  IN  << <<0 - h, h>>, <<h, h>>, <<h, 0 - h>>, <<0 - h, 0 - h>> >>

\* the same corners carried into the map frame by t_map_marker
append_corners_f_map(t_map_marker, len) ==
  LET c == append_corners_f_marker(len)
  IN  [j \in 1..4 |-> <<t_map_marker.tf + c[j][1], c[j][2]>>]

\* the four image corners of an observation, (x0,y0) .. (x3,y3)
append_corners_f_image(observation) == observation.corners

\* image of a marker that stands at pose c in the camera frame
ImageOf(c) ==
  LET m == append_corners_f_marker(marker_length)
  IN  [j \in 1..4 |-> <<c + m[j][1], m[j][2]>>]

Observation == {[id |-> s[1], corners |-> ImageOf(s[2])] : s \in Sightings}

Batches == UNION {[1..n -> Observation] : n \in 0..MaxBatch}

ObsIds(observations) == {observations[i].id : i \in 1..Len(observations)}

(***************************************************************************)
(* Covariance conversions (stored order x,y,z,roll,pitch,yaw; solver order *)
(* roll,pitch,yaw,x,y,z), both 6x6 row-major, index r*6+c+1                *)
(***************************************************************************)
\* a permutation that is not its own inverse
ro_cycled == <<1, 2, 3, 4, 5, 0>>

ro == <<3, 4, 5, 0, 1, 2>>    \* static int ro[], indexed from 0 in the source

\* to_cov_sam executes cov_sam(ro[r], ro[c]) = cov[r*6+c] for all r, c:
\* entry k of the result is written from entry to_cov_sam_from[k] of cov
to_cov_sam_from ==
  [k \in 1..36 |->
     LET R == (k - 1) \div 6
         C == (k - 1) % 6
         r == CHOOSE x \in 0..5 : ro[x + 1] = R
         c == CHOOSE x \in 0..5 : ro[x + 1] = C
     IN  r * 6 + c + 1]

to_cov_sam(cov) == [k \in 1..36 |-> cov[to_cov_sam_from[k]]]

\* to_cov_type executes cov[r*6+c] = cov_sam(ro[r], ro[c]) for all r, c
to_cov_type_from ==
  [k \in 1..36 |->
     LET r == (k - 1) \div 6
         c == (k - 1) % 6
     IN  ro[r + 1] * 6 + ro[c + 1] + 1]

to_cov_type(cov_sam) == [k \in 1..36 |-> cov_sam[to_cov_type_from[k]]]

\* a marginal covariance as the solver reports it: rotation variances 1,
\* translation variances 2, no correlations
SamMarginal ==
  [k \in 1..36 |->
     LET r == (k - 1) \div 6
         c == (k - 1) % 6
     IN  IF r # c THEN 0 ELSE IF r < 3 THEN 1 ELSE 2]

(***************************************************************************)
(* CvFiducialMath: the geometric solver                                    *)
(***************************************************************************)
Abs(x) == IF x < 0 THEN 0 - x ELSE x

RECURSIVE SumDx(_, _, _)
SumDx(obj, img, k) ==
  IF k = 0 THEN 0 ELSE (img[k][1] - obj[k][1]) + SumDx(obj, img, k - 1)

\* cv::solvePnP: the least-squares transform that carries the object points
\* onto the image points (the mean displacement); no rotation in this group
solvePnP(obj, img) ==
  [rvec |-> <<0, 0, 0>>, tvec |-> SumDx(obj, img, Len(img)) \div Len(img)]

\* cv::solvePnPRansac: the transform fitted to a minimal sample
solvePnPRansac(obj, img) ==
  [rvec |-> <<0, 0, 0>>, tvec |-> img[1][1] - obj[1][1]]

\* lines 151-159 of solve_t_camera_marker: what is returned for the outputs
\* rt of cv::solvePnP; the bool that cv::solvePnP returns is not looked at
cv_camera_marker_from_pnp(rt) == TWC(rt.tvec)

cv_solve_t_camera_marker(observation, len) ==
  LET corners_f_marker == append_corners_f_marker(len)
      corners_f_image == append_corners_f_image(observation)
      rt == solvePnP(corners_f_marker, corners_f_image)
  IN  cv_camera_marker_from_pnp(rt)

\* the two correspondence lists built by the loop of solve_t_map_camera
RECURSIVE all_corners_f_map(_, _, _)
all_corners_f_map(observations, m, n) ==
  IF n = 0 THEN <<>>
  ELSE LET t == find_t_map_markers(observations, m)[n]
       IN  IF t.valid
           THEN all_corners_f_map(observations, m, n - 1)
                  \o append_corners_f_map(t, m.marker_length)
           ELSE all_corners_f_map(observations, m, n - 1)

\* the 2D list with the image corners of every observation, known or not
RECURSIVE all_corners_f_image_unfiltered(_, _, _)
all_corners_f_image_unfiltered(observations, m, n) ==
  IF n = 0 THEN <<>>
  ELSE all_corners_f_image_unfiltered(observations, m, n - 1)
         \o append_corners_f_image(observations[n])

RECURSIVE all_corners_f_image(_, _, _)
all_corners_f_image(observations, m, n) ==
  IF n = 0 THEN <<>>
  ELSE LET t == find_t_map_markers(observations, m)[n]
       IN  IF t.valid
           THEN all_corners_f_image(observations, m, n - 1)
                  \o append_corners_f_image(observations[n])
           ELSE all_corners_f_image(observations, m, n - 1)

\* rotation-vector components are counted in quarter radians; 0.5 rad
rvec_threshold == 2

\* the choice of lines 194-211 with "at least 0.5" for "more than 0.5"
cv_map_camera_from_pnp_inclusive(n, rt, rtRansac) ==
  LET ran == n > 1 * 4 /\ n < 4 * 4
      used == /\ ran
              /\ \/ Abs(rt.rvec[1] - rtRansac.rvec[1]) >= rvec_threshold
                 \/ Abs(rt.rvec[2] - rtRansac.rvec[2]) >= rvec_threshold
                 \/ Abs(rt.rvec[3] - rtRansac.rvec[3]) >= rvec_threshold
      chosen == IF used THEN rtRansac ELSE rt
  IN  [ran |-> ran, used |-> used, twc |-> TWC(0 - chosen.tvec)]

\* lines 186-221 of solve_t_map_camera: n is all_corners_f_image.size(), rt
\* the outputs of cv::solvePnP, rtRansac the outputs cv::solvePnPRansac gives
\* when it is called.  [ran, used, twc]: whether solvePnPRansac was called,
\* whether its outputs replaced rt, and the pose returned.  Neither solver's
\* returned bool is looked at.
cv_map_camera_from_pnp(n, rt, rtRansac) ==
  LET ran == n > 1 * 4 /\ n < 4 * 4
      used == /\ ran
              /\ \/ Abs(rt.rvec[1] - rtRansac.rvec[1]) > rvec_threshold
                 \/ Abs(rt.rvec[2] - rtRansac.rvec[2]) > rvec_threshold
                 \/ Abs(rt.rvec[3] - rtRansac.rvec[3]) > rvec_threshold
      chosen == IF used THEN rtRansac ELSE rt
  IN  [ran |-> ran, used |-> used, twc |-> TWC(0 - chosen.tvec)]

cv_solve_t_map_camera(observations, m) ==
  LET f_map == all_corners_f_map(observations, m, Len(observations))
      f_image == all_corners_f_image(observations, m, Len(observations))
  IN  IF f_map = <<>> THEN InvalidTWC
      ELSE cv_map_camera_from_pnp(Len(f_image), solvePnP(f_map, f_image),
                                  solvePnPRansac(f_map, f_image)).twc

\* the update with update_count raised before it is handed to the average
update_marker_simple_average_count_first(existing, another_twc) ==
  IF ~existing.is_fixed
  THEN [existing EXCEPT
          !.t_map_marker =
             update_simple_average(@, another_twc, existing.update_count + 1),
          !.update_count = @ + 1]
  ELSE existing

\* the update of update_marker_simple_average without its is_fixed test
update_marker_simple_average_unguarded(existing, another_twc) ==
  [existing EXCEPT
     !.t_map_marker = update_simple_average(existing.t_map_marker, another_twc,
                                            existing.update_count),
     !.update_count = @ + 1]

\* the guard !existing.is_fixed() is the whole protection of a fixed marker
update_marker_simple_average(existing, another_twc) ==
  IF ~existing.is_fixed
  THEN [existing EXCEPT
          !.t_map_marker =
             update_simple_average(@, another_twc, existing.update_count),
          !.update_count = @ + 1]
  ELSE existing

\* an iteration that erases the entry before it decides what to store, and
\* stores nothing for a fixed marker
cv_update_one_erasing(t_map_camera, observation, m) ==
  LET t_camera_marker == cv_solve_t_camera_marker(observation, m.marker_length)
      t_map_marker == TWC(t_map_camera.tf + t_camera_marker.tf)
      erased == [m EXCEPT !.markers =
                   [k \in DOMAIN m.markers \ {observation.id} |-> m.markers[k]]]
  IN  IF known(m, observation.id)
      THEN IF m.markers[observation.id].is_fixed THEN erased
           ELSE put_marker(erased,
                           update_marker_simple_average(m.markers[observation.id],
                                                        t_map_marker))
      ELSE add_marker(m, Marker(observation.id, t_map_marker))

\* one iteration of the loop of CvFiducialMath::update_map
cv_update_one(t_map_camera, observation, m) ==
  LET t_camera_marker == cv_solve_t_camera_marker(observation, m.marker_length)
      t_map_marker == TWC(t_map_camera.tf + t_camera_marker.tf)
  IN  IF known(m, observation.id)
      THEN put_marker(m, update_marker_simple_average(m.markers[observation.id],
                                                       t_map_marker))
      ELSE add_marker(m, Marker(observation.id, t_map_marker))

RECURSIVE cv_update_from(_, _, _, _)
cv_update_from(i, t_map_camera, observations, m) ==
  IF i > Len(observations) THEN m
  ELSE cv_update_from(i + 1, t_map_camera, observations,
                      cv_update_one(t_map_camera, observations[i], m))

\* an update that rebuilds the map from the batch alone
cv_update_map_rebuilding(t_map_camera, observations, m) ==
  cv_update_from(1, t_map_camera, observations,
                 NewMap(m.map_style, m.marker_length))

\* CvFiducialMath::update_map
cv_update_map(t_map_camera, observations, m) ==
  cv_update_from(1, t_map_camera, observations, m)

(***************************************************************************)
(* SamFiducialMath: the factor-graph solver                                *)
(*                                                                         *)
(* A graph is a sequence of factor records; `initial` and the optimiser's  *)
(* result are functions from keys to transforms.  gtsam::Values::insert    *)
(* throws when the key is already present.                                 *)
(***************************************************************************)
camera_key_ == <<"c", 1>>            \* gtsam::Symbol('c', 1), member of the solver
update_camera_key == <<"c", 0>>      \* gtsam::Symbol('c', 0), local of update_map
marker_key(id) == <<"m", id>>

BetweenFactor(k1, k2, mean, cov) ==
  [type |-> "between", key |-> k1, key2 |-> k2, mean |-> mean,
   noise |-> "gaussian", cov |-> cov]

PriorFactor(k, mean, noise, cov) ==
  [type |-> "prior", key |-> k, key2 |-> k, mean |-> mean,
   noise |-> noise, cov |-> cov]

\* four resectioning factors on one camera variable, initial estimate the
\* inverse of the geometric t_camera_marker; the image data are exact, so
\* the optimum is the initial estimate; covariance is the marginal
sam_solve_camera_f_marker(observation, len) ==
  LET cv_t_camera_marker == cv_solve_t_camera_marker(observation, len)
      camera_f_marker_initial == 0 - cv_t_camera_marker.tf
  IN  TWCcov(camera_f_marker_initial, to_cov_type(SamMarginal))

\* a loader that adds an unknown marker to the Map while it loads the graph
load_one_inserting(g, observation, t_map_camera, camera_key, add_unknown_markers) ==
  LET m == g.map
      mk == marker_key(observation.id)
      camera_f_marker == sam_solve_camera_f_marker(observation, m.marker_length)
      between == BetweenFactor(mk, camera_key, camera_f_marker.tf,
                               to_cov_sam(camera_f_marker.cov))
      unknown_marker_f_map == t_map_camera.tf + (0 - camera_f_marker.tf)
  IN  IF g.raised THEN g
      ELSE IF known(m, observation.id)
      THEN [g EXCEPT
              !.graph = @ \o <<between,
                               PriorFactor(mk, m.markers[observation.id].t_map_marker.tf,
                                           "constrained", ZeroCov)>>,
              !.initial = IF mk \in DOMAIN @ THEN @
                          ELSE (mk :> m.markers[observation.id].t_map_marker.tf) @@ @,
              !.raised = FALSE]
      ELSE IF add_unknown_markers
      THEN [g EXCEPT
              !.graph = Append(@, between),
              !.initial = (mk :> unknown_marker_f_map) @@ @,
              !.map = add_marker(m, Marker(observation.id,
                                           TWC(unknown_marker_f_map)))]
      ELSE g

\* a loader that adds unknown markers whatever the caller asked for
load_one_adding_unknown(g, observation, t_map_camera, camera_key, add_unknown_markers) ==
  LET m == g.map
      mk == marker_key(observation.id)
      camera_f_marker == sam_solve_camera_f_marker(observation, m.marker_length)
      between == BetweenFactor(mk, camera_key, camera_f_marker.tf,
                               to_cov_sam(camera_f_marker.cov))
  IN  IF g.raised THEN g
      ELSE IF known(m, observation.id)
      THEN LET marker == m.markers[observation.id]
               known_marker_f_map == marker.t_map_marker.tf
               known_marker_cov == to_cov_sam(marker.t_map_marker.cov)
               use_constrained == \/ marker.is_fixed
                                  \/ m.map_style = "pose"
                                  \/ known_marker_cov[1] = 0
               prior == PriorFactor(mk, known_marker_f_map,
                                    IF use_constrained THEN "constrained"
                                                       ELSE "gaussian",
                                    known_marker_cov)
           IN  [g EXCEPT
                  !.graph = @ \o <<between, prior>>,
                  !.initial = IF mk \in DOMAIN @ THEN @
                              ELSE (mk :> known_marker_f_map) @@ @,
                  !.raised = mk \in DOMAIN g.initial]
      ELSE IF TRUE
      THEN LET unknown_marker_f_map == t_map_camera.tf + (0 - camera_f_marker.tf)
           IN  [g EXCEPT
                  !.graph = Append(@, between),
                  !.initial = IF mk \in DOMAIN @ THEN @
                              ELSE (mk :> unknown_marker_f_map) @@ @,
                  !.raised = mk \in DOMAIN g.initial]
      ELSE g

\* a loader that seats an unknown marker at t_map_camera * camera_f_marker
load_one_no_inverse(g, observation, t_map_camera, camera_key, add_unknown_markers) ==
  LET m == g.map
      mk == marker_key(observation.id)
      camera_f_marker == sam_solve_camera_f_marker(observation, m.marker_length)
      between == BetweenFactor(mk, camera_key, camera_f_marker.tf,
                               to_cov_sam(camera_f_marker.cov))
  IN  IF g.raised THEN g
      ELSE IF known(m, observation.id)
      THEN LET marker == m.markers[observation.id]
               known_marker_f_map == marker.t_map_marker.tf
               known_marker_cov == to_cov_sam(marker.t_map_marker.cov)
               use_constrained == \/ marker.is_fixed
                                  \/ m.map_style = "pose"
                                  \/ known_marker_cov[1] = 0
               prior == PriorFactor(mk, known_marker_f_map,
                                    IF use_constrained THEN "constrained"
                                                       ELSE "gaussian",
                                    known_marker_cov)
           IN  [g EXCEPT
                  !.graph = @ \o <<between, prior>>,
                  !.initial = IF mk \in DOMAIN @ THEN @
                              ELSE (mk :> known_marker_f_map) @@ @,
                  !.raised = mk \in DOMAIN g.initial]
      ELSE IF add_unknown_markers
      THEN LET unknown_marker_f_map == t_map_camera.tf + camera_f_marker.tf
           IN  [g EXCEPT
                  !.graph = Append(@, between),
                  !.initial = IF mk \in DOMAIN @ THEN @
                              ELSE (mk :> unknown_marker_f_map) @@ @,
                  !.raised = mk \in DOMAIN g.initial]
      ELSE g

\* a loader that tests the first variance of the covariance as it is stored
load_one_stored_order(g, observation, t_map_camera, camera_key, add_unknown_markers) ==
  LET m == g.map
      mk == marker_key(observation.id)
      camera_f_marker == sam_solve_camera_f_marker(observation, m.marker_length)
      between == BetweenFactor(mk, camera_key, camera_f_marker.tf,
                               to_cov_sam(camera_f_marker.cov))
  IN  IF g.raised THEN g
      ELSE IF known(m, observation.id)
      THEN LET marker == m.markers[observation.id]
               known_marker_f_map == marker.t_map_marker.tf
               known_marker_cov == to_cov_sam(marker.t_map_marker.cov)
               use_constrained == \/ marker.is_fixed
                                  \/ m.map_style = "pose"
                                  \/ marker.t_map_marker.cov[1] = 0
               prior == PriorFactor(mk, known_marker_f_map,
                                    IF use_constrained THEN "constrained"
                                                       ELSE "gaussian",
                                    known_marker_cov)
           IN  [g EXCEPT
                  !.graph = @ \o <<between, prior>>,
                  !.initial = IF mk \in DOMAIN @ THEN @
                              ELSE (mk :> known_marker_f_map) @@ @,
                  !.raised = mk \in DOMAIN g.initial]
      ELSE IF add_unknown_markers
      THEN LET unknown_marker_f_map == t_map_camera.tf + (0 - camera_f_marker.tf)
           IN  [g EXCEPT
                  !.graph = Append(@, between),
                  !.initial = IF mk \in DOMAIN @ THEN @
                              ELSE (mk :> unknown_marker_f_map) @@ @,
                  !.raised = mk \in DOMAIN g.initial]
      ELSE g

\* one iteration of the loop of load_graph_from_observations; g is
\* [graph, initial, raised, map]: the two output parameters, whether
\* Values::insert threw, and the Map the function holds by reference
load_one(g, observation, t_map_camera, camera_key, add_unknown_markers) ==
  LET m == g.map
      mk == marker_key(observation.id)
      camera_f_marker == sam_solve_camera_f_marker(observation, m.marker_length)
      between == BetweenFactor(mk, camera_key, camera_f_marker.tf,
                               to_cov_sam(camera_f_marker.cov))
  IN  IF g.raised THEN g
      ELSE IF known(m, observation.id)
      THEN LET marker == m.markers[observation.id]
               known_marker_f_map == marker.t_map_marker.tf
               known_marker_cov == to_cov_sam(marker.t_map_marker.cov)
               use_constrained == \/ marker.is_fixed
                                  \/ m.map_style = "pose"
                                  \/ known_marker_cov[1] = 0
               prior == PriorFactor(mk, known_marker_f_map,
                                    IF use_constrained THEN "constrained"
                                                       ELSE "gaussian",
                                    known_marker_cov)
           IN  [g EXCEPT
                  !.graph = @ \o <<between, prior>>,
                  !.initial = IF mk \in DOMAIN @ THEN @
                              ELSE (mk :> known_marker_f_map) @@ @,
                  !.raised = mk \in DOMAIN g.initial]
      ELSE IF add_unknown_markers
      THEN LET unknown_marker_f_map == t_map_camera.tf + (0 - camera_f_marker.tf)
           IN  [g EXCEPT
                  !.graph = Append(@, between),
                  !.initial = IF mk \in DOMAIN @ THEN @
                              ELSE (mk :> unknown_marker_f_map) @@ @,
                  !.raised = mk \in DOMAIN g.initial]
      ELSE g

RECURSIVE load_from(_, _, _, _, _, _)
load_from(i, g, t_map_camera, observations, camera_key, add_unknown_markers) ==
  IF i > Len(observations) THEN g
  ELSE load_from(i + 1,
                 load_one(g, observations[i], t_map_camera, camera_key,
                          add_unknown_markers),
                 t_map_camera, observations, camera_key, add_unknown_markers)

load_graph_from_observations(t_map_camera, observations, m, camera_key, add_unknown_markers) ==
  LET g == load_from(1, [graph |-> <<>>, initial |-> <<>>, raised |-> FALSE,
                         map |-> m],
                     t_map_camera, observations, camera_key,
                     add_unknown_markers)
  IN  IF g.raised THEN g
      ELSE [g EXCEPT !.initial = (camera_key :> t_map_camera.tf) @@ @]

\* gtsam::LevenbergMarquardtOptimizer(graph, initial).optimize(): a variable
\* under a constrained prior stays at the prior's mean, every other variable
\* ends at its initial estimate displaced by d
LMOptimize(graph, initial, d) ==
  [k \in DOMAIN initial |->
     IF \E j \in 1..Len(graph) :
          /\ graph[j].type = "prior"
          /\ graph[j].key = k
          /\ graph[j].noise = "constrained"
     THEN initial[k]
     ELSE initial[k] + d]

\* gtsam::Marginals + result.at(key), converted to the stored order
extract_transform_with_covariance(graph, result, key) ==
  TWCcov(result[key], to_cov_type(SamMarginal))

\* SamFiducialMath::solve_t_map_camera: [twc, raised, graph, map]; d is the
\* optimiser's displacement, throws says whether gtsam::Marginals throws
sam_solve_t_map_camera(observations, m, d, throws) ==
  LET cv_t_map_camera == cv_solve_t_map_camera(observations, m)
      g == load_graph_from_observations(cv_t_map_camera, observations, m,
                                        camera_key_, FALSE)
  IN  IF ~cv_t_map_camera.valid
      THEN [twc |-> cv_t_map_camera, raised |-> FALSE, graph |-> <<>>, map |-> m]
      ELSE IF g.raised \/ throws
      THEN [twc |-> InvalidTWC, raised |-> TRUE, graph |-> g.graph, map |-> g.map]
      ELSE [twc |-> extract_transform_with_covariance(
                      g.graph, LMOptimize(g.graph, g.initial, d), camera_key_),
            raised |-> FALSE, graph |-> g.graph, map |-> g.map]

\* a write-back that overwrites the pose and leaves update_count alone
sam_write_one_no_count(observation, graph, result, m) ==
  LET t_map_marker == extract_transform_with_covariance(
                        graph, result, marker_key(observation.id))
  IN  IF ~known(m, observation.id)
      THEN add_marker(m, Marker(observation.id, t_map_marker))
      ELSE IF ~m.markers[observation.id].is_fixed
      THEN put_marker(m, [m.markers[observation.id] EXCEPT
                            !.t_map_marker = t_map_marker])
      ELSE m

\* a write-back that stores a fresh Marker over a known one
sam_write_one_fresh(observation, graph, result, m) ==
  LET t_map_marker == extract_transform_with_covariance(
                        graph, result, marker_key(observation.id))
  IN  IF ~known(m, observation.id)
      THEN add_marker(m, Marker(observation.id, t_map_marker))
      ELSE IF ~m.markers[observation.id].is_fixed
      THEN put_marker(m, Marker(observation.id, t_map_marker))
      ELSE m

\* one iteration of the write-back loop of SamFiducialMath::update_map
sam_write_one(observation, graph, result, m) ==
  LET t_map_marker == extract_transform_with_covariance(
                        graph, result, marker_key(observation.id))
  IN  IF ~known(m, observation.id)
      THEN add_marker(m, Marker(observation.id, t_map_marker))
      ELSE IF ~m.markers[observation.id].is_fixed
      THEN put_marker(m, [m.markers[observation.id] EXCEPT
                            !.t_map_marker = t_map_marker,
                            !.update_count = @ + 1])
      ELSE m

RECURSIVE sam_write_from(_, _, _, _, _)
sam_write_from(i, observations, graph, result, m) ==
  IF i > Len(observations) THEN m
  ELSE sam_write_from(i + 1, observations, graph, result,
                      sam_write_one(observations[i], graph, result, m))

\* the precondition with the two tests joined by "and" in the early return
sam_update_precondition_and(t_map_camera, observations) ==
  ~(~t_map_camera.valid /\ Len(observations) < 2)

\* the early return of SamFiducialMath::update_map is taken when this is false
sam_update_precondition(t_map_camera, observations) ==
  ~(~t_map_camera.valid \/ Len(observations) < 2)

\* SamFiducialMath::update_map: [map, raised, built, graph]; built says
\* whether a graph was built
sam_update_map(t_map_camera, observations, m, d, throws) ==
  LET g == load_graph_from_observations(t_map_camera, observations, m,
                                        update_camera_key, TRUE)
  IN  IF ~sam_update_precondition(t_map_camera, observations)
      THEN [map |-> m, raised |-> FALSE, built |-> FALSE, graph |-> <<>>]
      ELSE IF g.raised \/ throws
      THEN [map |-> g.map, raised |-> TRUE, built |-> TRUE, graph |-> g.graph]
      ELSE [map |-> sam_write_from(1, observations, g.graph,
                                   LMOptimize(g.graph, g.initial, d), g.map),
            raised |-> FALSE, built |-> TRUE, graph |-> g.graph]

(***************************************************************************)
(* FiducialMath: the driver's two entry points                             *)
(***************************************************************************)
\* a localize that also enters what it saw into the map
fm_solve_t_map_camera_storing(sam_not_cv, observations, m, d, throws) ==
  LET r == IF sam_not_cv
           THEN sam_solve_t_map_camera(observations, m, d, throws)
           ELSE [twc |-> cv_solve_t_map_camera(observations, m),
                 raised |-> FALSE, graph |-> <<>>, map |-> m]
  IN  IF r.twc.valid
      THEN [r EXCEPT !.map = cv_update_map(r.twc, observations, m)]
      ELSE r

fm_solve_t_map_camera(sam_not_cv, observations, m, d, throws) ==
  IF sam_not_cv
  THEN sam_solve_t_map_camera(observations, m, d, throws)
  ELSE [twc |-> cv_solve_t_map_camera(observations, m), raised |-> FALSE,
        graph |-> <<>>, map |-> m]

fm_update_map(sam_not_cv, t_map_camera, observations, m, d, throws) ==
  IF sam_not_cv
  THEN sam_update_map(t_map_camera, observations, m, d, throws)
  ELSE [map |-> cv_update_map(t_map_camera, observations, m),
        raised |-> FALSE, built |-> FALSE, graph |-> <<>>]

(***************************************************************************)
(* Map initialisation (VmapNode::initialize_map)                           *)
(***************************************************************************)
map_init_id_ == 0                      \* cxt_.map_init_id_
map_init_transform_ == TWC(0)          \* cxt_.map_init_transform_

Configs ==
  [make_not_use_map_ : BOOLEAN, map_init_style_ : {0, 1, 2}, sam_not_cv_ : BOOLEAN]

FixedMarker(id, tf) == [Marker(id, TWC(tf)) EXCEPT !.is_fixed = TRUE]

\* what from_YAML_file can hand back: an error, or the map stored in the file
FileMapA ==
  add_marker(
    add_marker(NewMap("covariance", marker_length), FixedMarker(0, 2)),
    [Marker(1, TWCcov(2, to_cov_type(SamMarginal))) EXCEPT !.update_count = 2])

FileMapB == add_marker(NewMap("pose", marker_length), Marker(1, TWC(2)))

FileOutcomes ==
  { [err |-> TRUE, map |-> NewMap("pose", marker_length)],
    [err |-> FALSE, map |-> FileMapA],
    [err |-> FALSE, map |-> FileMapB] }

\* initialize_map without set_is_fixed(true) on the copy taken from the file
initialize_map_keeping_flag(cxt, file) ==
  LET new_map_style == IF cxt.sam_not_cv_ THEN "covariance" ELSE "pose"
      style1 == add_marker(NewMap(new_map_style, marker_length),
                           [Marker(map_init_id_, map_init_transform_)
                              EXCEPT !.is_fixed = TRUE])
  IN  IF ~cxt.make_not_use_map_ /\ ~file.err
      THEN [null |-> FALSE, map |-> file.map]
      ELSE IF cxt.map_init_style_ = 2
      THEN [null |-> TRUE, map |-> NewMap(new_map_style, marker_length)]
      ELSE IF /\ cxt.map_init_style_ = 0
              /\ ~file.err
              /\ known(file.map, map_init_id_)
      THEN [null |-> FALSE,
            map |-> add_marker(NewMap(new_map_style, marker_length),
                               file.map.markers[map_init_id_])]
      ELSE [null |-> FALSE, map |-> style1]

\* initialize_map with a style-1 marker that is not made fixed
initialize_map_style1_free(cxt, file) ==
  LET new_map_style == IF cxt.sam_not_cv_ THEN "covariance" ELSE "pose"
      style1 == add_marker(NewMap(new_map_style, marker_length),
                           Marker(map_init_id_, map_init_transform_))
  IN  IF ~cxt.make_not_use_map_ /\ ~file.err
      THEN [null |-> FALSE, map |-> file.map]
      ELSE IF cxt.map_init_style_ = 2
      THEN [null |-> TRUE, map |-> NewMap(new_map_style, marker_length)]
      ELSE IF /\ cxt.map_init_style_ = 0
              /\ ~file.err
              /\ known(file.map, map_init_id_)
      THEN [null |-> FALSE,
            map |-> add_marker(NewMap(new_map_style, marker_length),
                               [file.map.markers[map_init_id_]
                                  EXCEPT !.is_fixed = TRUE])]
      ELSE [null |-> FALSE, map |-> style1]

\* [null, map]: null says that the returned unique_ptr holds no Map
initialize_map(cxt, file) ==
  LET new_map_style == IF cxt.sam_not_cv_ THEN "covariance" ELSE "pose"
      style1 == add_marker(NewMap(new_map_style, marker_length),
                           [Marker(map_init_id_, map_init_transform_)
                              EXCEPT !.is_fixed = TRUE])
  IN  IF ~cxt.make_not_use_map_ /\ ~file.err
      THEN [null |-> FALSE, map |-> file.map]
      ELSE IF cxt.map_init_style_ = 2
      THEN [null |-> TRUE, map |-> NewMap(new_map_style, marker_length)]
      ELSE IF /\ cxt.map_init_style_ = 0
              /\ ~file.err
              /\ known(file.map, map_init_id_)
      THEN [null |-> FALSE,
            map |-> add_marker(NewMap(new_map_style, marker_length),
                               [file.map.markers[map_init_id_]
                                  EXCEPT !.is_fixed = TRUE])]
      ELSE [null |-> FALSE, map |-> style1]

(***************************************************************************)
(* State of the VmapNode and of the executor (used by SpecNode)            *)
(***************************************************************************)
NewNode(cxt, is_null, m) ==
  [cxt |-> cxt,
   map_null |-> is_null,         \* map_ holds no Map
   crashed |-> FALSE,            \* the process has ended abnormally
   executing |-> "none",         \* callback the executor is running
   pc |-> "idle",                \* position inside observations_callback
   observations |-> <<>>,        \* batch being handled
   t_map_camera |-> InvalidTWC,  \* result of localize for this batch
   i |-> 0,                      \* loop index inside update_map
   g |-> [graph |-> <<>>, initial |-> <<>>, result |-> <<>>],
   boundary |-> m,               \* map when the last callback returned
   um_pre |-> m,                 \* map when update_map was entered
   published |-> [count |-> 0, pc |-> "idle", ok |-> TRUE, batches |-> 0],
   batches |-> 0,                \* callbacks that changed the map so far
   sam_born |-> {}]              \* [id, fixed_present] per solver insertion

NoNode == NewNode([make_not_use_map_ |-> FALSE, map_init_style_ |-> 1,
                   sam_not_cv_ |-> FALSE], FALSE, NewMap("pose", marker_length))

(***************************************************************************)
(* Specification Spec: a caller drives the two entry points of FiducialMath*)
(* directly, each call atomic, with any batch and any t_map_camera.        *)
(***************************************************************************)
NoCall ==
  [op |-> "none", sam |-> FALSE, t_map_camera |-> InvalidTWC,
   observations |-> <<>>, pre |-> NewMap("pose", marker_length),
   ret |-> InvalidTWC, raised |-> FALSE, built |-> FALSE, chained |-> FALSE]

Init ==
  \E cxt \in Configs, file \in FileOutcomes :
    LET r == initialize_map(cxt, file)
    IN  /\ ~r.null
        /\ map = r.map
        /\ map0 = r.map
        /\ last = NoCall
        /\ ncalls = 0
        /\ node = NoNode

DoLocalize(sam, observations, d, throws) ==
  LET r == fm_solve_t_map_camera(sam, observations, map, d, throws)
  IN  /\ ncalls < MaxCalls
      /\ last.op = "none"
      /\ map' = r.map
      /\ last' = [op |-> "localize", sam |-> sam, t_map_camera |-> InvalidTWC,
                  observations |-> observations, pre |-> map, ret |-> r.twc,
                  raised |-> r.raised, built |-> r.graph # <<>>,
                  chained |-> FALSE]
      /\ ncalls' = ncalls + 1
      /\ UNCHANGED <<map0, node>>

DoUpdateMap(sam, t_map_camera, observations, d, throws, chained) ==
  LET r == fm_update_map(sam, t_map_camera, observations, map, d, throws)
  IN  /\ ncalls < MaxCalls
      /\ map' = r.map
      /\ last' = [op |-> "update_map", sam |-> sam,
                  t_map_camera |-> t_map_camera,
                  observations |-> observations, pre |-> map,
                  ret |-> InvalidTWC, raised |-> r.raised, built |-> r.built,
                  chained |-> chained]
      /\ ncalls' = ncalls + 1
      /\ UNCHANGED <<map0, node>>

CallerPoses == {InvalidTWC} \cup {TWC(p) : p \in CameraPoses}

CvLocalize == \E b \in Batches : DoLocalize(FALSE, b, 0, FALSE)

SamLocalize ==
  \E b \in Batches, d \in OptOffsets, throws \in BOOLEAN :
    DoLocalize(TRUE, b, d, throws)

CvUpdateMap ==
  /\ last.op = "none"
  /\ \E b \in Batches, t \in CallerPoses :
       DoUpdateMap(FALSE, t, b, 0, FALSE, FALSE)

SamUpdateMap ==
  /\ last.op = "none"
  /\ \E b \in Batches, t \in CallerPoses, d \in OptOffsets, throws \in BOOLEAN :
       DoUpdateMap(TRUE, t, b, d, throws, FALSE)

\* update_map with the pose that the preceding localize returned for the
\* same batch, by the same backend
UpdateAfterLocalize ==
  /\ last.op = "localize"
  /\ ~last.raised
  /\ \E d \in OptOffsets, throws \in BOOLEAN :
       /\ (~last.sam => (d = 0 /\ ~throws))
       /\ DoUpdateMap(last.sam, last.ret, last.observations, d, throws, TRUE)

\* the caller is done with the results of its last call
Return ==
  /\ last.op # "none"
  /\ last' = NoCall
  /\ UNCHANGED <<map, map0, ncalls, node>>

Next ==
  \/ CvLocalize
  \/ SamLocalize
  \/ CvUpdateMap
  \/ SamUpdateMap
  \/ UpdateAfterLocalize
  \/ Return

Spec == Init /\ [][Next]_vars

(***************************************************************************)
(* Specification SpecNode: the map-building node.  main() spins the node   *)
(* on the default executor; observations_callback is modelled statement by *)
(* statement, update_map inside it iteration by iteration.                 *)
(***************************************************************************)
InitNode ==
  \E cxt \in Configs, file \in FileOutcomes :
    LET r == initialize_map(cxt, file)
    IN  /\ map = r.map
        /\ map0 = r.map
        /\ last = NoCall
        /\ ncalls = 0
        /\ node = NewNode(cxt, r.null, r.map)

\* rclcpp::spin(node): the single-threaded executor takes the next ready
\* callback only when no callback is running
spin_can_dispatch_multi(n) == ~n.crashed

spin_can_dispatch(n) == ~n.crashed /\ n.executing = "none"

has_fixed(m) == \E k \in DOMAIN m.markers : m.markers[k].is_fixed

RECURSIVE first_with_id(_, _, _)
first_with_id(observations, id, k) ==
  IF observations[k].id = id THEN observations[k]
  ELSE first_with_id(observations, id, k + 1)

\* VmapNode::initialize_map_from_observations, acting on the Map that map_
\* points to
initialize_map_from_observations(observations, m) ==
  LET min_id == CHOOSE x \in ObsIds(observations) :
                  \A y \in ObsIds(observations) : x <= y
      min_obs == first_with_id(observations, min_id, 1)
      t_camera_marker == cv_solve_t_camera_marker(min_obs, marker_length)
      t_map_camera == map_init_transform_
      t_map_marker == TWC(t_map_camera.tf + t_camera_marker.tf)
  IN  add_marker(m, Marker(min_id, t_map_marker))

\* observations_callback returns
Returned(n, m) ==
  [n EXCEPT !.executing = "none", !.pc = "idle", !.observations = <<>>,
            !.t_map_camera = InvalidTWC, !.i = 0,
            !.g = [graph |-> <<>>, initial |-> <<>>, result |-> <<>>],
            !.boundary = m, !.um_pre = m,
            !.batches = IF m = n.boundary THEN @ ELSE @ + 1]

\* an uncaught exception or a fault ends the process
Crashed(n) == [n EXCEPT !.crashed = TRUE]

\* an early return that lets a batch of one observation through
nothing_to_do_when_empty(observations) == Len(observations) < 1

\* the early return of observations_callback, line 1228
nothing_to_do(observations) == Len(observations) < 2

\* the subscription delivers a message; the callback starts
ObsReceive ==
  /\ node.cxt.make_not_use_map_
  /\ spin_can_dispatch(node)
  /\ node.pc = "idle"
  /\ ncalls <= MaxCalls
  /\ \E b \in Batches :
       node' = [node EXCEPT !.executing = "obs", !.pc = "init",
                            !.observations = b]
  /\ UNCHANGED <<map, map0, last, ncalls>>

\* lines 1221-1230: map initialisation from the first batch, then the early
\* return.  With map_ null the call dereferences a null pointer: the process
\* faults, or the call runs on the storage the pointer denotes.
ObsInit ==
  /\ ~node.crashed
  /\ node.pc = "init"
  /\ LET obs == node.observations
         must_init == node.map_null /\ Len(obs) > 0
     IN  \E survives \in BOOLEAN :
           /\ (~must_init => survives)
           /\ IF ~survives
              THEN /\ node' = Crashed(node)
                   /\ map' = map
              ELSE LET m == IF must_init
                            THEN initialize_map_from_observations(obs, map)
                            ELSE map
                   IN  /\ map' = m
                       /\ node' = IF nothing_to_do(obs)
                                  THEN Returned(node, m)
                                  ELSE [node EXCEPT !.pc = "localize"]
  /\ UNCHANGED <<map0, last, ncalls>>

\* line 1233: fm.solve_t_map_camera, then the validity test of line 1236
ObsLocalize ==
  /\ ~node.crashed
  /\ node.pc = "localize"
  /\ \E d \in OptOffsets, throws \in BOOLEAN :
       LET r == fm_solve_t_map_camera(node.cxt.sam_not_cv_, node.observations,
                                      map, d, throws)
       IN  /\ (~node.cxt.sam_not_cv_ => (d = 0 /\ ~throws))
           /\ map' = r.map
           /\ node' = IF r.raised THEN Crashed(node)
                      ELSE IF r.twc.valid
                      THEN [node EXCEPT !.pc = "update", !.t_map_camera = r.twc]
                      ELSE Returned(node, r.map)
  /\ ncalls' = ncalls + 1
  /\ UNCHANGED <<map0, last>>

\* line 1239: fm.update_map is entered
ObsUpdate ==
  /\ ~node.crashed
  /\ node.pc = "update"
  /\ node' = IF node.cxt.sam_not_cv_
             THEN IF sam_update_precondition(node.t_map_camera,
                                             node.observations)
                  THEN [node EXCEPT !.pc = "sam_load", !.um_pre = map]
                  ELSE Returned(node, map)
             ELSE [node EXCEPT !.pc = "cv_loop", !.i = 1, !.um_pre = map]
  /\ ncalls' = ncalls + 1
  /\ UNCHANGED <<map, map0, last>>

\* one iteration of the loop of CvFiducialMath::update_map
CvStep ==
  /\ ~node.crashed
  /\ node.pc = "cv_loop"
  /\ LET m == cv_update_one(node.t_map_camera, node.observations[node.i], map)
     IN  /\ map' = m
         /\ node' = IF node.i = Len(node.observations)
                    THEN Returned(node, m)
                    ELSE [node EXCEPT !.i = @ + 1]
  /\ UNCHANGED <<map0, last, ncalls>>

\* lines 730-738: the graph is loaded
SamLoad ==
  /\ ~node.crashed
  /\ node.pc = "sam_load"
  /\ LET g == load_graph_from_observations(node.t_map_camera,
                                           node.observations, map,
                                           update_camera_key, TRUE)
     IN  /\ map' = g.map
         /\ node' = IF g.raised THEN Crashed(node)
                    ELSE [node EXCEPT !.pc = "sam_opt",
                                      !.g = [graph |-> g.graph,
                                             initial |-> g.initial,
                                             result |-> <<>>]]
  /\ UNCHANGED <<map0, last, ncalls>>

\* line 741: the optimiser runs
SamOptimize ==
  /\ ~node.crashed
  /\ node.pc = "sam_opt"
  /\ \E d \in OptOffsets :
       node' = [node EXCEPT !.pc = "sam_write", !.i = 1,
                            !.g.result = LMOptimize(node.g.graph,
                                                    node.g.initial, d)]
  /\ UNCHANGED <<map, map0, last, ncalls>>

\* one iteration of the write-back loop, lines 746-758; gtsam::Marginals is
\* built from the same graph in every iteration, so it throws in the first
\* iteration or in none
SamWrite ==
  /\ ~node.crashed
  /\ node.pc = "sam_write"
  /\ \E throws \in BOOLEAN :
       /\ (node.i > 1 => ~throws)
       /\ IF throws
          THEN /\ node' = Crashed(node)
               /\ map' = map
          ELSE LET ob == node.observations[node.i]
                   m == sam_write_one(ob, node.g.graph, node.g.result, map)
                   born == IF known(map, ob.id) THEN node.sam_born
                           ELSE node.sam_born \cup
                                  {[id |-> ob.id, fixed_present |-> has_fixed(map)]}
                   n == [node EXCEPT !.sam_born = born]
               IN  /\ map' = m
                   /\ node' = IF node.i = Len(node.observations)
                              THEN Returned(n, m)
                              ELSE [n EXCEPT !.i = @ + 1]
  /\ UNCHANGED <<map0, last, ncalls>>

\* the wall timer's callback, lines 1195-1202 and 1294-1319: it reads the
\* map (publishes it, writes it to the YAML file) and changes nothing
TimerFire ==
  /\ spin_can_dispatch(node)
  /\ ~node.map_null
  /\ node' = [node EXCEPT !.published =
                [count |-> 1, pc |-> node.pc, ok |-> (map = node.boundary),
                 batches |-> node.batches]]
  /\ UNCHANGED <<map, map0, last, ncalls>>

NextNode ==
  \/ ObsReceive
  \/ ObsInit
  \/ ObsLocalize
  \/ ObsUpdate
  \/ CvStep
  \/ SamLoad
  \/ SamOptimize
  \/ SamWrite
  \/ TimerFire

SpecNode == InitNode /\ [][NextNode]_vars

(***************************************************************************)
(* Specification SpecPnP: the geometric solver's use of what cv::solvePnP  *)
(* and cv::solvePnPRansac hand back, for any outputs of the two solvers.   *)
(***************************************************************************)
MaxKnown == 4            \* known markers in one batch (4 corners each)

RvecValues == {<<0, 0, 0>>, <<2, 0, 0>>, <<0, 3, 0>>, <<0, 0, 0 - 3>>}

\* what a solver can hand back: the bool it returns and its two outputs
PnPOutputs == [found : BOOLEAN, rvec : RvecValues, tvec : {0, 1}]

InitPnP ==
  /\ map = NewMap("pose", marker_length)
  /\ map0 = map
  /\ last = NoCall
  /\ ncalls = 0
  /\ node = NoNode

PnPCameraMarker ==
  /\ last.op = "none"
  /\ \E rt \in PnPOutputs :
       last' = [op |-> "solve_t_camera_marker", rt |-> rt,
                ret |-> cv_camera_marker_from_pnp(rt)]
  /\ UNCHANGED <<map, map0, ncalls, node>>

PnPMapCamera ==
  /\ last.op = "none"
  /\ \E k \in 1..MaxKnown, rt \in PnPOutputs, rtRansac \in PnPOutputs :
       LET r == cv_map_camera_from_pnp(4 * k, rt, rtRansac)
       IN  last' = [op |-> "solve_t_map_camera", n |-> 4 * k, rt |-> rt,
                    rtRansac |-> rtRansac, r |-> r, ret |-> r.twc]
  /\ UNCHANGED <<map, map0, ncalls, node>>

NextPnP ==
  \/ PnPCameraMarker
  \/ PnPMapCamera
  \/ Return

SpecPnP == InitPnP /\ [][NextPnP]_vars

(***************************************************************************)
(* Specification SpecAvg: successive geometric update_map calls on a map   *)
(* that starts with the one fixed marker of initialisation style 1.  Each  *)
(* batch holds distinct ids.  last.estimates[id] lists, call by call, the  *)
(* estimate t_map_camera * t_camera_marker that update_map formed for id.  *)
(***************************************************************************)
AvgCameraPoses == {0, 2, 4}

SightedIds == {s[1] : s \in Sightings}

InitAvg ==
  /\ map = initialize_map([make_not_use_map_ |-> TRUE, map_init_style_ |-> 1,
                           sam_not_cv_ |-> FALSE],
                          [err |-> TRUE, map |-> NewMap("pose", marker_length)]).map
  /\ map0 = map
  /\ last = [op |-> "averaging", estimates |-> [id \in SightedIds |-> <<>>]]
  /\ ncalls = 0
  /\ node = NoNode

AvgUpdateMap ==
  /\ ncalls < MaxCalls
  /\ \E b \in Batches, t \in AvgCameraPoses :
       /\ Cardinality(ObsIds(b)) = Len(b)
       /\ map' = cv_update_map(TWC(t), b, map)
       /\ last' = [last EXCEPT !.estimates =
                     [id \in SightedIds |->
                        IF id \in ObsIds(b)
                        THEN LET ob == CHOOSE o \in {b[k] : k \in 1..Len(b)} :
                                         o.id = id
                             IN  Append(@[id],
                                        t + cv_solve_t_camera_marker(
                                              ob, map.marker_length).tf)
                        ELSE @[id]]]
  /\ ncalls' = ncalls + 1
  /\ UNCHANGED <<map0, node>>

NextAvg == AvgUpdateMap

SpecAvg == InitAvg /\ [][NextAvg]_vars

(***************************************************************************)
(* Specification SpecInit: VmapNode::initialize_map for every              *)
(* configuration and every outcome of reading the map file.                *)
(***************************************************************************)
\* entries a map file may hold for the init marker and for one other marker
InitMarkerEntries ==
  { FixedMarker(map_init_id_, 2),
    [Marker(map_init_id_, TWCcov(1, to_cov_type(SamMarginal)))
       EXCEPT !.update_count = 3] }

OtherMarkerEntries ==
  { Marker(1, TWC(2)), [FixedMarker(2, 4) EXCEPT !.update_count = 2] }

RECURSIVE MapOf(_, _)
MapOf(m, entries) ==
  IF entries = {} THEN m
  ELSE LET e == CHOOSE x \in entries : TRUE
       IN  MapOf(add_marker(m, e), entries \ {e})

\* maps that from_YAML_file can hand back
InitFileMaps ==
  { MapOf(NewMap(style, marker_length), a \cup b) :
      style \in {"pose", "covariance"},
      a \in {{}} \cup {{x} : x \in InitMarkerEntries},
      b \in SUBSET OtherMarkerEntries }

InitFiles ==
  {[err |-> TRUE, map |-> NewMap("pose", marker_length)]}
    \cup {[err |-> FALSE, map |-> fm] : fm \in InitFileMaps}

InitConfigured ==
  /\ \E cxt \in Configs, file \in InitFiles :
       last = [op |-> "configured", cxt |-> cxt, file |-> file]
  /\ map = NewMap("pose", marker_length)
  /\ map0 = map
  /\ ncalls = 0
  /\ node = NoNode

InitializeMap ==
  /\ last.op = "configured"
  /\ LET r == initialize_map(last.cxt, last.file)
     IN  /\ map' = r.map
         /\ last' = [op |-> "initialize_map", cxt |-> last.cxt,
                     file |-> last.file, null |-> r.null]
  /\ UNCHANGED <<map0, ncalls, node>>

NextInit == InitializeMap

SpecInit == InitConfigured /\ [][NextInit]_vars

(***************************************************************************)
(* The YAML map file.  A document is the node tree that YAML::Load hands   *)
(* to FromYAML and that the events given to YAML::Emitter describe; a      *)
(* scalar carries its text, one character per element.                     *)
(***************************************************************************)
YamlDigits == <<"0", "1", "2", "3", "4", "5", "6", "7", "8", "9">>

\* emitter_ << n for a non-negative number: its decimal digits
RECURSIVE emit_digits(_)
emit_digits(n) ==
  IF n < 10 THEN <<YamlDigits[n + 1]>>
  ELSE Append(emit_digits(n \div 10), YamlDigits[(n % 10) + 1])

\* emitter_ << n for an int
emit_int(n) == IF n < 0 THEN <<"-">> \o emit_digits(0 - n) ELSE emit_digits(n)

\* emitter_ << x for a double: the numbers of the model are whole, and a
\* whole double is written without a fraction
emit_double(x) == emit_int(x)

is_digit(c) == \E d \in 1..10 : YamlDigits[d] = c

digit_value(c) == (CHOOSE d \in 1..10 : YamlDigits[d] = c) - 1

RECURSIVE digits_value(_)
digits_value(s) ==
  IF Len(s) = 0 THEN 0
  ELSE 10 * digits_value(SubSeq(s, 1, Len(s) - 1)) + digit_value(s[Len(s)])

unsigned_part(text) ==
  IF Len(text) > 0 /\ text[1] = "-" THEN Tail(text) ELSE text

\* whether node.as<int>() / node.as<double>() converts the text; when it
\* does not, the conversion throws YAML::BadConversion
convertible(text) ==
  /\ Len(unsigned_part(text)) > 0
  /\ \A i \in 1..Len(unsigned_part(text)) : is_digit(unsigned_part(text)[i])

\* node.as<int>()
as_int(text) ==
  IF text[1] = "-" THEN 0 - digits_value(Tail(text)) ELSE digits_value(text)

\* node.as<double>()
as_double(text) == as_int(text)

\* YAML nodes
Scalar(text) == [kind |-> "scalar", text |-> text]

Sequence(items) == [kind |-> "sequence", items |-> items]

Mapping(keys) == [kind |-> "map", keys |-> keys]

Undefined == [kind |-> "undefined"]

\* a stream that is not YAML: YAML::Load throws YAML::ParserException
Unparsable == [kind |-> "unparsable"]

IsScalar(n) == n.kind = "scalar"

IsSequence(n) == n.kind = "sequence"

IsMap(n) == n.kind = "map"

\* node[key] of a map node
child(n, key) == IF key \in DOMAIN n.keys THEN n.keys[key] ELSE Undefined

\* the int values of Map::MapStyles
MapStyleValue(style) ==
  CASE style = "pose" -> 0
    [] style = "covariance" -> 1
    [] style = "corners" -> 2

\* static_cast<Map::MapStyles>(n)
MapStyleOf(n) ==
  CASE n = 0 -> "pose"
    [] n = 1 -> "covariance"
    [] n = 2 -> "corners"
    [] OTHER -> "unnamed"

\* std::map iterates its markers by ascending id
RECURSIVE ascending(_)
ascending(ids) ==
  IF ids = {} THEN <<>>
  ELSE LET lo == CHOOSE x \in ids : \A y \in ids : x <= y
       IN  <<lo>> \o ascending(ids \ {lo})

\* getOrigin() and getRPY() of a pose of the model: a translation along x
xyz_of(tf) == <<tf, 0, 0>>

rpy_of(tf) == <<0, 0, 0>>

flow_seq(values) ==
  Sequence([k \in 1..Len(values) |-> Scalar(emit_double(values[k]))])

\* ToYAML::do_marker that writes the fixed flag where the update count goes
do_marker_swapping_u_f(style, marker) ==
  Mapping(
    [k \in {"id", "u", "f", "xyz", "rpy"} \cup
           (IF style # "pose" THEN {"cov"} ELSE {}) |->
       CASE k = "id" -> Scalar(emit_int(marker.id))
         [] k = "f" -> Scalar(emit_int(marker.update_count))
         [] k = "u" -> Scalar(emit_int(IF marker.is_fixed THEN 1 ELSE 0))
         [] k = "xyz" -> flow_seq(xyz_of(marker.t_map_marker.tf))
         [] k = "rpy" -> flow_seq(rpy_of(marker.t_map_marker.tf))
         [] k = "cov" -> flow_seq(marker.t_map_marker.cov)])

\* ToYAML::do_marker
do_marker(style, marker) ==
  Mapping(
    [k \in {"id", "u", "f", "xyz", "rpy"} \cup
           (IF style # "pose" THEN {"cov"} ELSE {}) |->
       CASE k = "id" -> Scalar(emit_int(marker.id))
         [] k = "u" -> Scalar(emit_int(marker.update_count))
         [] k = "f" -> Scalar(emit_int(IF marker.is_fixed THEN 1 ELSE 0))
         [] k = "xyz" -> flow_seq(xyz_of(marker.t_map_marker.tf))
         [] k = "rpy" -> flow_seq(rpy_of(marker.t_map_marker.tf))
         [] k = "cov" -> flow_seq(marker.t_map_marker.cov)])

\* ToYAML::do_markers
do_markers(m) ==
  LET ids == ascending(DOMAIN m.markers)
  IN  Sequence([k \in 1..Len(ids) |-> do_marker(m.map_style, m.markers[ids[k]])])

\* ToYAML::to_YAML (do_map, do_header, do_markers)
to_YAML(m) ==
  Mapping(
    [k \in {"marker_length", "map_style", "markers"} |->
       CASE k = "marker_length" -> Scalar(emit_double(m.marker_length))
         [] k = "map_style" -> Scalar(emit_int(MapStyleValue(m.map_style)))
         [] k = "markers" -> do_markers(m)])

\* FromYAML: its members while a parse runs.  raised: a yaml-cpp exception
\* other than YAML::ParserException left from_YAML.
NullMap == [null |-> TRUE, map |-> NewMap("pose", marker_length)]

HeldMap(m) == [null |-> FALSE, map |-> m]

FromYAMLMembers == [ok |-> TRUE, error_msg_ |-> "", raised |-> FALSE, map_ |-> NullMap]

\* FromYAML::yaml_error
yaml_error(st, s) == [st EXCEPT !.ok = FALSE, !.error_msg_ = s]

\* as<T>() threw YAML::BadConversion
bad_conversion(st) == [st EXCEPT !.ok = FALSE, !.raised = TRUE]

\* the element loops of from_marker: the first element that is not a scalar
\* stops the parse with an error, the first one that does not convert throws
first_bad(items, n) ==
  LET bad == {i \in 1..n : ~IsScalar(items[i]) \/ ~convertible(items[i].text)}
  IN  IF bad = {} THEN 0 ELSE CHOOSE i \in bad : \A j \in bad : i <= j

doubles_of(items, n) == [i \in 1..n |-> as_double(items[i].text)]

\* the Marker that from_marker builds once every check has passed
parsed_marker(marker_node, cov) ==
  [Marker(as_int(child(marker_node, "id").text),
          TWCcov(doubles_of(child(marker_node, "xyz").items, 3)[1], cov))
     EXCEPT !.is_fixed = (as_int(child(marker_node, "f").text) # 0),
            !.update_count = as_int(child(marker_node, "u").text)]

\* lines 1020-1024 of from_marker
from_marker_add(st, marker_node, cov) ==
  IF \E k \in {"id", "f", "u"} : ~convertible(child(marker_node, k).text)
  THEN bad_conversion(st)
  ELSE [st EXCEPT !.map_ = HeldMap(add_marker(st.map_.map,
                                              parsed_marker(marker_node, cov)))]

\* lines 1002-1018 of from_marker
from_marker_cov(st, marker_node) ==
  IF st.map_.map.map_style # "pose"
  THEN LET cov_node == child(marker_node, "cov")
       IN  IF ~IsSequence(cov_node)
           THEN yaml_error(st, "marker.cov failed IsSequence()")
           ELSE IF Len(cov_node.items) # 36
           THEN yaml_error(st, "marker.cov incorrect size")
           ELSE IF first_bad(cov_node.items, 36) # 0
           THEN IF ~IsScalar(cov_node.items[first_bad(cov_node.items, 36)])
                THEN yaml_error(st, "marker.cov[i] failed IsScalar()")
                ELSE bad_conversion(st)
           ELSE from_marker_add(st, marker_node, doubles_of(cov_node.items, 36))
  ELSE from_marker_add(st, marker_node, ZeroCov)

\* the two element loops of from_marker (lines 977-992)
from_marker_mu(st, marker_node) ==
  LET xyz == child(marker_node, "xyz").items
      rpy == child(marker_node, "rpy").items
  IN  IF first_bad(xyz, 3) # 0
      THEN IF ~IsScalar(xyz[first_bad(xyz, 3)])
           THEN yaml_error(st, "marker.xyz[i] failed IsScalar()")
           ELSE bad_conversion(st)
      ELSE IF first_bad(rpy, 3) # 0
      THEN IF ~IsScalar(rpy[first_bad(rpy, 3)])
           THEN yaml_error(st, "marker.rpy[i] failed IsScalar()")
           ELSE bad_conversion(st)
      ELSE from_marker_cov(st, marker_node)

\* FromYAML::from_marker
from_marker(st, marker_node) ==
  IF ~IsScalar(child(marker_node, "id"))
  THEN yaml_error(st, "marker.id failed IsScalar()")
  ELSE IF ~IsScalar(child(marker_node, "u"))
  THEN yaml_error(st, "marker.update_count failed IsScalar()")
  ELSE IF ~IsScalar(child(marker_node, "f"))
  THEN yaml_error(st, "marker.is_fixed failed IsScalar()")
  ELSE IF ~IsSequence(child(marker_node, "xyz"))
  THEN yaml_error(st, "marker.xyz failed IsSequence()")
  ELSE IF Len(child(marker_node, "xyz").items) # 3
  THEN yaml_error(st, "marker.xyz incorrect size")
  ELSE IF ~IsSequence(child(marker_node, "rpy"))
  THEN yaml_error(st, "marker.rpy failed IsSequence()")
  ELSE IF Len(child(marker_node, "rpy").items) # 3
  THEN yaml_error(st, "marker.rpy incorrect size")
  ELSE from_marker_mu(st, marker_node)

\* FromYAML::from_markers, from the i-th entry on
RECURSIVE from_markers_at(_, _, _)
from_markers_at(i, st, markers_node) ==
  IF i > Len(markers_node.items) THEN st
  ELSE IF ~IsMap(markers_node.items[i])
  THEN yaml_error(st, "marker failed IsMap()")
  ELSE LET next == from_marker(st, markers_node.items[i])
       IN  IF next.ok THEN from_markers_at(i + 1, next, markers_node) ELSE next

\* FromYAML::from_markers
from_markers(st, markers_node) == from_markers_at(1, st, markers_node)

\* from_map that takes a missing map_style for Covariance
from_map_default_covariance(st, yaml_node_) ==
  IF ~IsMap(yaml_node_) THEN yaml_error(st, "root failed IsMap()")
  ELSE
    LET map_style_node == child(yaml_node_, "map_style")
        marker_length_node == child(yaml_node_, "marker_length")
        markers_node == child(yaml_node_, "markers")
    IN  IF IsScalar(map_style_node) /\ ~convertible(map_style_node.text)
        THEN bad_conversion(st)
        ELSE IF ~IsScalar(marker_length_node)
        THEN yaml_error(st, "marker_length failed IsScalar()")
        ELSE IF ~convertible(marker_length_node.text)
        THEN bad_conversion(st)
        ELSE
          LET made == [st EXCEPT !.map_ =
                         HeldMap(NewMap(IF IsScalar(map_style_node)
                                        THEN MapStyleOf(as_int(map_style_node.text))
                                        ELSE "covariance",
                                        as_double(marker_length_node.text)))]
          IN  IF IsSequence(markers_node)
              THEN from_markers(made, markers_node)
              ELSE yaml_error(made, "markers failed IsSequence()")

\* FromYAML::from_map
from_map(st, yaml_node_) ==
  IF ~IsMap(yaml_node_) THEN yaml_error(st, "root failed IsMap()")
  ELSE
    LET map_style_node == child(yaml_node_, "map_style")
        marker_length_node == child(yaml_node_, "marker_length")
        markers_node == child(yaml_node_, "markers")
    IN  IF IsScalar(map_style_node) /\ ~convertible(map_style_node.text)
        THEN bad_conversion(st)
        ELSE IF ~IsScalar(marker_length_node)
        THEN yaml_error(st, "marker_length failed IsScalar()")
        ELSE IF ~convertible(marker_length_node.text)
        THEN bad_conversion(st)
        ELSE
          LET made == [st EXCEPT !.map_ =
                         HeldMap(NewMap(IF IsScalar(map_style_node)
                                        THEN MapStyleOf(as_int(map_style_node.text))
                                        ELSE "pose",
                                        as_double(marker_length_node.text)))]
          IN  IF IsSequence(markers_node)
              THEN from_markers(made, markers_node)
              ELSE yaml_error(made, "markers failed IsSequence()")

\* FromYAML::from_YAML: what it returns, and the caller's map afterwards
from_YAML(stream, caller_map) ==
  IF stream.kind = "unparsable"
  THEN [error_msg |-> "yaml-cpp: error parsing the stream", raised |-> FALSE,
        map |-> caller_map]
  ELSE LET st == from_map(FromYAMLMembers, stream)
       IN  [error_msg |-> st.error_msg_, raised |-> st.raised,
            map |-> IF st.ok THEN st.map_ ELSE caller_map]

(***************************************************************************)
(* Specification SpecYaml: a map is written with to_YAML, the file is      *)
(* possibly edited by hand, and from_YAML reads it into a null map         *)
(* pointer, as both callers of from_YAML_file do.                          *)
(***************************************************************************)
MaxEdits == 2

\* markers a saved map may hold
YamlMarkerEntries ==
  { FixedMarker(0, 2),
    [Marker(1, TWCcov(0 - 12, to_cov_type(SamMarginal))) EXCEPT !.update_count = 3],
    [Marker(12, TWCcov(7, [k \in 1..36 |-> k - 18]))
       EXCEPT !.update_count = 10, !.is_fixed = TRUE] }

YamlMaps ==
  { MapOf(NewMap(style, marker_length), entries) :
      style \in MapStyles, entries \in SUBSET YamlMarkerEntries }

CovEditKinds == {"drop_cov", "short_cov", "long_cov"}

YamlEdits ==
  [kind : {"drop_map_style", "drop_marker_length", "garble"}, i : {0}]
    \cup [kind : CovEditKinds \cup {"bad_u"}, i : 1..Cardinality(YamlMarkerEntries)]

\* whether the edit can be made to the document
can_edit(e, doc) ==
  /\ IsMap(doc)
  /\ CASE e.kind = "drop_map_style" -> "map_style" \in DOMAIN doc.keys
       [] e.kind = "drop_marker_length" -> "marker_length" \in DOMAIN doc.keys
       [] e.kind = "garble" -> TRUE
       [] OTHER ->
            /\ e.i <= Len(doc.keys["markers"].items)
            /\ IF e.kind = "bad_u"
               THEN convertible(doc.keys["markers"].items[e.i].keys["u"].text)
               ELSE /\ "cov" \in DOMAIN doc.keys["markers"].items[e.i].keys
                    /\ Len(doc.keys["markers"].items[e.i].keys["cov"].items) = 36

without_key(n, key) == Mapping([k \in DOMAIN n.keys \ {key} |-> n.keys[k]])

edit_marker(e, marker_node) ==
  CASE e.kind = "drop_cov" -> without_key(marker_node, "cov")
    [] e.kind = "short_cov" ->
         [marker_node EXCEPT !.keys["cov"].items = SubSeq(@, 1, 35)]
    [] e.kind = "long_cov" ->
         [marker_node EXCEPT !.keys["cov"].items = Append(@, Scalar(emit_double(0)))]
    [] e.kind = "bad_u" -> [marker_node EXCEPT !.keys["u"] = Scalar(<<"x">>)]

\* the document after the edit
apply_edit(e, doc) ==
  CASE e.kind = "drop_map_style" -> without_key(doc, "map_style")
    [] e.kind = "drop_marker_length" -> without_key(doc, "marker_length")
    [] e.kind = "garble" -> Unparsable
    [] OTHER -> [doc EXCEPT !.keys["markers"].items[e.i] = edit_marker(e, @)]

InitYaml ==
  /\ map \in YamlMaps
  /\ map0 = map
  /\ last = [op |-> "none"]
  /\ ncalls = 0
  /\ node = NoNode

\* to_YAML_file(map_, filename)
YamlSave ==
  /\ last.op = "none"
  /\ last' = [op |-> "to_YAML", saved |-> map, doc |-> to_YAML(map), edits |-> <<>>]
  /\ UNCHANGED <<map, map0, ncalls, node>>

\* the file is changed between the save and the next start of the node
YamlEdit ==
  /\ last.op = "to_YAML"
  /\ Len(last.edits) < MaxEdits
  /\ \E e \in YamlEdits :
       /\ can_edit(e, last.doc)
       /\ last' = [last EXCEPT !.doc = apply_edit(e, @), !.edits = Append(@, e)]
  /\ UNCHANGED <<map, map0, ncalls, node>>

\* from_YAML_file(filename, map) with a null map
YamlLoad ==
  /\ last.op = "to_YAML"
  /\ LET r == from_YAML(last.doc, NullMap)
     IN  /\ last' = [op |-> "from_YAML", saved |-> last.saved, doc |-> last.doc,
                     edits |-> last.edits, error_msg |-> r.error_msg,
                     raised |-> r.raised, loaded |-> r.map]
         /\ map' = IF r.map.null THEN map ELSE r.map.map
  /\ UNCHANGED <<map0, ncalls, node>>

NextYaml == YamlSave \/ YamlEdit \/ YamlLoad

SpecYaml == InitYaml /\ [][NextYaml]_vars

(***************************************************************************)
(* Specification SpecGraph: the graph and the initial values that          *)
(* load_graph_from_observations hands to the optimiser, as the two         *)
(* callers in SamFiducialMath invoke it, for every map and batch.          *)
(***************************************************************************)
\* stored covariances (x, y, z, roll, pitch, yaw): only the x variance, and
\* only the roll variance
XOnlyCov == [k \in 1..36 |-> IF k = 1 THEN 2 ELSE 0]

RollOnlyCov == [k \in 1..36 |-> IF k = 22 THEN 1 ELSE 0]

\* what a map may hold for each of the ids that can be sighted
GraphMarkerChoices ==
  << {FixedMarker(0, 2), Marker(0, TWCcov(2, XOnlyCov))},
     {[Marker(1, TWCcov(3, to_cov_type(SamMarginal))) EXCEPT !.update_count = 2],
      Marker(1, TWCcov(3, RollOnlyCov))},
     {Marker(2, TWC(5))} >>

GraphMaps ==
  { MapOf(NewMap(style, marker_length), a \cup b \cup c) :
      style \in MapStyles,
      a \in {{}} \cup {{x} : x \in GraphMarkerChoices[1]},
      b \in {{}} \cup {{x} : x \in GraphMarkerChoices[2]},
      c \in {{}} \cup {{x} : x \in GraphMarkerChoices[3]} }

GraphCameraPoses == {InvalidTWC, TWC(0), TWC(3)}

NoGraph == [graph |-> <<>>, initial |-> <<>>, raised |-> FALSE]

InitGraph ==
  /\ map \in GraphMaps
  /\ map0 = map
  /\ last = [op |-> "none"]
  /\ ncalls = 0
  /\ node = NoNode

\* SamFiducialMath::solve_t_map_camera up to the call of the optimiser
GraphLocalize ==
  /\ last.op = "none"
  /\ \E observations \in Batches :
       LET cv_t_map_camera == cv_solve_t_map_camera(observations, map)
           g == load_graph_from_observations(cv_t_map_camera, observations, map,
                                             camera_key_, FALSE)
       IN  /\ last' = [op |-> "localize", observations |-> observations,
                       t_map_camera |-> cv_t_map_camera,
                       camera_key |-> camera_key_,
                       built |-> cv_t_map_camera.valid,
                       g |-> IF cv_t_map_camera.valid
                             THEN [graph |-> g.graph, initial |-> g.initial,
                                   raised |-> g.raised]
                             ELSE NoGraph]
           /\ map' = IF cv_t_map_camera.valid THEN g.map ELSE map
  /\ UNCHANGED <<map0, ncalls, node>>

\* SamFiducialMath::update_map up to the call of the optimiser
GraphUpdateMap ==
  /\ last.op = "none"
  /\ \E observations \in Batches, t_map_camera \in GraphCameraPoses :
       LET pass == sam_update_precondition(t_map_camera, observations)
           g == load_graph_from_observations(t_map_camera, observations, map,
                                             update_camera_key, TRUE)
       IN  /\ last' = [op |-> "update_map", observations |-> observations,
                       t_map_camera |-> t_map_camera,
                       camera_key |-> update_camera_key,
                       built |-> pass,
                       g |-> IF pass
                             THEN [graph |-> g.graph, initial |-> g.initial,
                                   raised |-> g.raised]
                             ELSE NoGraph]
           /\ map' = IF pass THEN g.map ELSE map
  /\ UNCHANGED <<map0, ncalls, node>>

\* the graph goes out of scope when the call returns
GraphReturn ==
  /\ last.op # "none"
  /\ last' = [op |-> "none"]
  /\ UNCHANGED <<map, map0, ncalls, node>>

NextGraph == GraphLocalize \/ GraphUpdateMap \/ GraphReturn

SpecGraph == InitGraph /\ [][NextGraph]_vars

(***************************************************************************)
(* Specification SpecCov: the two covariance conversions applied to 6x6    *)
(* matrices, and each applied to the other's result.                       *)
(***************************************************************************)
\* a matrix with a single non-zero entry, at index k
UnitCov(k) == [j \in 1..36 |-> IF j = k THEN 1 ELSE 0]

\* a matrix whose 36 entries are all different
DistinctCov == [j \in 1..36 |-> j]

CovMatrices ==
  {UnitCov(k) : k \in 1..36} \cup {DistinctCov, SamMarginal, ZeroCov, XOnlyCov}

InitCov ==
  /\ \E C \in CovMatrices : last = [op |-> "matrix", C |-> C, out |-> C]
  /\ map = NewMap("covariance", marker_length)
  /\ map0 = map
  /\ ncalls = 0
  /\ node = NoNode

\* to_cov_sam on a stored covariance, or on what to_cov_type returned
CovToSam ==
  /\ last.op \in {"matrix", "to_cov_type"}
  /\ last' = [op |-> IF last.op = "matrix" THEN "to_cov_sam" ELSE "type_then_sam",
              C |-> last.C, out |-> to_cov_sam(last.out)]
  /\ UNCHANGED <<map, map0, ncalls, node>>

\* to_cov_type on a solver covariance, or on what to_cov_sam returned
CovToType ==
  /\ last.op \in {"matrix", "to_cov_sam"}
  /\ last' = [op |-> IF last.op = "matrix" THEN "to_cov_type" ELSE "sam_then_type",
              C |-> last.C, out |-> to_cov_type(last.out)]
  /\ UNCHANGED <<map, map0, ncalls, node>>

NextCov == CovToSam \/ CovToType

SpecCov == InitCov /\ [][NextCov]_vars

(***************************************************************************)
(* Specification SpecCorners: the two correspondence lists that the        *)
(* geometric solve_t_map_camera hands to cv::solvePnP, for every map and   *)
(* batch.                                                                  *)
(***************************************************************************)
InitCorners ==
  /\ map \in GraphMaps
  /\ map0 = map
  /\ last = [op |-> "none"]
  /\ ncalls = 0
  /\ node = NoNode

\* lines 165-178 of CvFiducialMath::solve_t_map_camera
CornersCollect ==
  /\ last.op = "none"
  /\ \E observations \in Batches :
       last' = [op |-> "corners", observations |-> observations,
                all_corners_f_map |->
                  all_corners_f_map(observations, map, Len(observations)),
                all_corners_f_image |->
                  all_corners_f_image(observations, map, Len(observations))]
  /\ UNCHANGED <<map, map0, ncalls, node>>

\* the lists are locals of the call
CornersReturn ==
  /\ last.op = "corners"
  /\ last' = [op |-> "none"]
  /\ UNCHANGED <<map, map0, ncalls, node>>

NextCorners == CornersCollect \/ CornersReturn

SpecCorners == InitCorners /\ [][NextCorners]_vars

(***************************************************************************)
(* Properties.  Under Spec, `last` describes the call that produced the    *)
(* current state (last.pre is the map the call started from) and map0 is   *)
(* the map before the first call.  Under SpecNode, node.um_pre is the map  *)
(* at entry to update_map and node.boundary the map at the last return of  *)
(* observations_callback.                                                  *)
(***************************************************************************)
NoneKnown(observations, m) == ObsIds(observations) \cap DOMAIN m.markers = {}

LastWasUpdate == last.op = "update_map"

\* C1: after any sequence of update_map calls (either backend, any batches,
\* any camera poses) every marker that is fixed keeps exactly the
\* t_map_marker and the update_count it had before the sequence.
C1_FixedMarkersImmutable ==
  \A id \in DOMAIN map0.markers :
    map0.markers[id].is_fixed =>
      /\ id \in DOMAIN map.markers
      /\ map.markers[id].t_map_marker = map0.markers[id].t_map_marker
      /\ map.markers[id].update_count = map0.markers[id].update_count

\* an update_map call with a valid pose has just observed a fixed marker at a
\* place other than the stored one
C1_Witness ==
  /\ LastWasUpdate
  /\ last.t_map_camera.valid
  /\ \E k \in 1..Len(last.observations) :
       LET ob == last.observations[k]
       IN  /\ ob.id \in DOMAIN map0.markers
           /\ map0.markers[ob.id].is_fixed
           /\ last.t_map_camera.tf
                + cv_solve_t_camera_marker(ob, marker_length).tf
              # map0.markers[ob.id].t_map_marker.tf

\* C2: for either backend, localize on a batch none of whose marker ids is in
\* the map returns an invalid pose, and the following update_map with that
\* pose and the same batch leaves the map unchanged.
C2_NoKnownMarkersShortCircuit ==
  (/\ LastWasUpdate
   /\ last.chained
   /\ NoneKnown(last.observations, last.pre))
  => (~last.t_map_camera.valid /\ map = last.pre)

\* C3: for either backend and whatever pose is passed, update_map inserts no
\* marker when none of the observed marker ids is in the map at the call.
C3_NoInsertWithoutKnownAnchor ==
  (LastWasUpdate /\ NoneKnown(last.observations, last.pre))
  => DOMAIN map.markers = DOMAIN last.pre.markers

\* C4: for either backend and any pose, valid or not, update_map with an
\* empty batch leaves the map unchanged.
C4_EmptyUpdateIdempotent ==
  (LastWasUpdate /\ last.observations = <<>>) => map = last.pre

\* the geometric update_map has just been called with a valid pose and an
\* empty batch on a map of two or more markers
C4_Witness ==
  /\ LastWasUpdate
  /\ ~last.sam
  /\ last.observations = <<>>
  /\ last.t_map_camera.valid
  /\ Cardinality(DOMAIN last.pre.markers) >= 2

\* C5: the factor-graph update_map changes nothing, raises nothing and builds
\* no graph whenever the pose is invalid or the batch has fewer than 2
\* observations.
C5_SamSilentNoOp ==
  (/\ LastWasUpdate
   /\ last.sam
   /\ (~last.t_map_camera.valid \/ Len(last.observations) < 2))
  => (map = last.pre /\ ~last.raised /\ ~last.built)

\* the factor-graph update_map has just been called with a valid pose and a
\* single observation, of a marker the map does not hold
C5_Witness ==
  /\ LastWasUpdate
  /\ last.sam
  /\ last.t_map_camera.valid
  /\ Len(last.observations) = 1
  /\ NoneKnown(last.observations, last.pre)

\* C7: across localize and update_map calls the update_count of a marker
\* never decreases, and it changes only in an update_map call whose batch
\* observes the marker, and only while the marker is not fixed.
C7_UpdateCountMonotone ==
  \A id \in DOMAIN last.pre.markers \cap DOMAIN map.markers :
    /\ map.markers[id].update_count >= last.pre.markers[id].update_count
    /\ map.markers[id].update_count # last.pre.markers[id].update_count
       => /\ LastWasUpdate
          /\ id \in ObsIds(last.observations)
          /\ ~last.pre.markers[id].is_fixed

\* the factor-graph update_map has just raised the update_count of a marker
\* that had been updated before
C7_Witness ==
  /\ LastWasUpdate
  /\ last.sam
  /\ \E id \in DOMAIN last.pre.markers \cap DOMAIN map.markers :
       /\ last.pre.markers[id].update_count >= 2
       /\ map.markers[id].update_count > last.pre.markers[id].update_count

\* C8: across localize and update_map calls the set of marker ids only
\* grows: an id in the map before a call is in the map after it.
C8_MarkerIdsOnlyGrow ==
  /\ DOMAIN last.pre.markers \subseteq DOMAIN map.markers
  /\ DOMAIN map0.markers \subseteq DOMAIN map.markers

\* update_map has just observed a known marker of a map of two markers and
\* inserted a third marker
C8_Witness ==
  /\ LastWasUpdate
  /\ Cardinality(DOMAIN last.pre.markers) >= 2
  /\ DOMAIN map.markers # DOMAIN last.pre.markers
  /\ ~NoneKnown(last.observations, last.pre)

C9_NoWriteBeforeAllSolving ==
  node.pc \in {"cv_loop", "sam_load", "sam_opt"} => map = node.um_pre

\* C9 as the code has it: the factor-graph update_map writes nothing before
\* the graph is loaded and the optimiser has returned; the geometric
\* update_map, about to solve observation i, has already written the map for
\* observations 1..i-1.
C9_WritesAfterOptimiserOrPerObservation ==
  /\ node.pc \in {"sam_load", "sam_opt"} => map = node.um_pre
  /\ (node.pc = "sam_write" /\ node.i = 1) => map = node.um_pre
  /\ node.pc = "cv_loop"
     => map = cv_update_map(node.t_map_camera,
                            SubSeq(node.observations, 1, node.i - 1),
                            node.um_pre)

\* the optimiser has returned for a batch that holds an unknown marker and
\* the write-back loop has not started
C9_Witness ==
  /\ node.pc = "sam_write"
  /\ node.i = 1
  /\ ~NoneKnown(node.observations, map)
  /\ \E id \in ObsIds(node.observations) : ~known(map, id)

\* C10: the timer callback never runs interleaved with an observations
\* callback: every map it publishes and saves is the map as a completely
\* handled batch left it.
C10_TimerNotInterleaved ==
  node.published.count > 0
  => (node.published.pc = "idle" /\ node.published.ok)

\* the timer has published a map that a handled batch had changed
C10_Witness ==
  /\ node.published.count > 0
  /\ node.published.batches > 0

\* C11: when the PnP solver reports that it found no solution, the geometric
\* solve_t_camera_marker and solve_t_map_camera return an invalid pose, not
\* one built from the solver's output vectors.
C11_NoSolutionGivesInvalid ==
  (/\ last.op \in {"solve_t_camera_marker", "solve_t_map_camera"}
   /\ ~last.rt.found)
  => ~last.ret.valid

\* C12: for every batch (no known marker, a repeated marker id, an invalid
\* t_map_camera included) localize and update_map of both backends return
\* normally: no exception escapes the solvers or the driver.
C12_NoExceptionEscapes ==
  last.op \in {"localize", "update_map"} => ~last.raised

\* C13: in the geometric solve_t_map_camera the RANSAC solve is run exactly
\* when the number N of collected image corners satisfies 4 < N < 16; the
\* returned pose is built from the RANSAC result iff RANSAC was run and some
\* rotation-vector component differs from the primary solve by more than 0.5
\* (2 quarter radians), and from the primary result otherwise.
C13_RansacGuard ==
  last.op = "solve_t_map_camera" =>
    LET run == 4 < last.n /\ last.n < 16
        differs == \E k \in 1..3 :
                     Abs(last.rt.rvec[k] - last.rtRansac.rvec[k]) > 2
    IN  /\ last.r.ran <=> run
        /\ last.r.used <=> (run /\ differs)
        /\ last.ret = TWC(0 - (IF run /\ differs THEN last.rtRansac.tvec
                                                 ELSE last.rt.tvec))

\* solve_t_map_camera has returned the pose of the RANSAC solve, which is not
\* the pose of the primary solve
C13_Witness ==
  /\ last.op = "solve_t_map_camera"
  /\ last.r.used
  /\ last.rt.tvec # last.rtRansac.tvec
  /\ last.ret = TWC(0 - last.rtRansac.tvec)

DistinctIds(observations) ==
  Cardinality(ObsIds(observations)) = Len(observations)

\* C14: after a factor-graph update_map call that passes its preconditions
\* on a batch of distinct marker ids, every observed id is in the map; an id
\* that was not in the map is present, not fixed, with update_count 1; an id
\* that was present and not fixed has the optimised pose and its
\* update_count raised by exactly 1; markers not observed are unchanged.
C14_SamUpdatePostcondition ==
  (/\ LastWasUpdate
   /\ last.sam
   /\ last.built
   /\ ~last.raised
   /\ DistinctIds(last.observations))
  => \E d \in OptOffsets :
       LET g == load_graph_from_observations(last.t_map_camera,
                                             last.observations, last.pre,
                                             update_camera_key, TRUE)
           result == LMOptimize(g.graph, g.initial, d)
           optimised(id) == extract_transform_with_covariance(
                              g.graph, result, marker_key(id))
           old == last.pre.markers
           new == map.markers
       IN  /\ ObsIds(last.observations) \subseteq DOMAIN new
           /\ DOMAIN new = DOMAIN old \cup ObsIds(last.observations)
           /\ \A id \in ObsIds(last.observations) \ DOMAIN old :
                /\ ~new[id].is_fixed
                /\ new[id].update_count = 1
                /\ new[id].t_map_marker = optimised(id)
           /\ \A id \in ObsIds(last.observations) \cap DOMAIN old :
                ~old[id].is_fixed =>
                  /\ new[id].t_map_marker = optimised(id)
                  /\ new[id].update_count = old[id].update_count + 1
                  /\ ~new[id].is_fixed
           /\ \A id \in DOMAIN old \ ObsIds(last.observations) :
                new[id] = old[id]

\* a factor-graph update_map has just inserted one marker and updated a
\* known non-fixed one, whose pose it changed, while a third marker was not
\* observed
C14_Witness ==
  /\ LastWasUpdate
  /\ last.sam
  /\ last.built
  /\ ~last.raised
  /\ DistinctIds(last.observations)
  /\ ObsIds(last.observations) \ DOMAIN last.pre.markers # {}
  /\ DOMAIN last.pre.markers \ ObsIds(last.observations) # {}
  /\ \E id \in ObsIds(last.observations) \cap DOMAIN last.pre.markers :
       /\ ~last.pre.markers[id].is_fixed
       /\ map.markers[id].t_map_marker.tf # last.pre.markers[id].t_map_marker.tf

RECURSIVE SumSeq(_, _)
SumSeq(P, k) == IF k = 0 THEN 0 ELSE P[k] + SumSeq(P, k - 1)

\* the mean after the first k estimates, by mean <- (count*mean + other) /
\* (count+1) with count = k-1 at step k, and whether every division was exact
RECURSIVE RunningMean(_, _)
RunningMean(P, k) ==
  IF k = 1 THEN [mean |-> P[1], exact |-> TRUE]
  ELSE LET prev == RunningMean(P, k - 1)
           num == (k - 1) * prev.mean + P[k]
       IN  [mean |-> num \div k, exact |-> prev.exact /\ num % k = 0]

\* C15: with the geometric backend, a marker that was unknown and has been
\* observed in n >= 1 update_map calls with estimates P1..Pn has
\* update_count n and the position that mean <- (count*mean + other) /
\* (count+1) gives, which is the arithmetic mean of P1..Pn (where the
\* integer divisions are exact); its covariance is the one it was inserted
\* with.
C15_SimpleAverage ==
  last.op = "averaging" =>
    \A id \in SightedIds \ DOMAIN map0.markers :
      LET P == last.estimates[id]
          n == Len(P)
      IN  n >= 1 =>
            /\ id \in DOMAIN map.markers
            /\ map.markers[id].update_count = n
            /\ map.markers[id].t_map_marker.tf = RunningMean(P, n).mean
            /\ RunningMean(P, n).exact
               => n * map.markers[id].t_map_marker.tf = SumSeq(P, n)
            /\ map.markers[id].t_map_marker.cov = TWC(P[1]).cov
            /\ ~map.markers[id].is_fixed

\* a marker has been averaged over two or more different estimates whose
\* mean is exact
C15_Witness ==
  /\ last.op = "averaging"
  /\ \E id \in SightedIds \ DOMAIN map0.markers :
       LET P == last.estimates[id]
       IN  /\ Len(P) >= 2
           /\ P[1] # P[2]
           /\ RunningMean(P, Len(P)).exact
           /\ Len(P) * map.markers[id].t_map_marker.tf = SumSeq(P, Len(P))

\* the node started in mode 2 with no map and initialize_map_from_observations
\* has run, or has ended the process, for the first non-empty batch
Mode2FirstBatchInitialised ==
  /\ node.cxt.make_not_use_map_
  /\ node.cxt.map_init_style_ = 2
  /\ DOMAIN map0.markers = {}
  /\ node.boundary = map0
  /\ Len(node.observations) > 0
  /\ (node.pc = "localize" \/ node.crashed)

\* C16: in mode 2 handling the first non-empty batch constructs the map and
\* inserts exactly the marker with the lowest id of the batch, fixed, with
\* pose configured t_map_camera * t_camera_marker, before localize or
\* update_map run for that batch.
C16_Mode2ConstructsFixedAnchor ==
  Mode2FirstBatchInitialised =>
    LET min_id == CHOOSE x \in ObsIds(node.observations) :
                    \A y \in ObsIds(node.observations) : x <= y
        min_obs == first_with_id(node.observations, min_id, 1)
    IN  /\ ~node.crashed
        /\ ~node.map_null
        /\ DOMAIN map.markers = {min_id}
        /\ map.markers[min_id].is_fixed
        /\ map.markers[min_id].t_map_marker.tf =
             map_init_transform_.tf
               + cv_solve_t_camera_marker(min_obs, marker_length).tf

SameMarkers(a, b) ==
  /\ DOMAIN a.markers = DOMAIN b.markers
  /\ \A id \in DOMAIN a.markers :
       /\ a.markers[id].id = b.markers[id].id
       /\ a.markers[id].t_map_marker.tf = b.markers[id].t_map_marker.tf
       /\ a.markers[id].update_count = b.markers[id].update_count
       /\ a.markers[id].is_fixed = b.markers[id].is_fixed

Initialized == last.op = "initialize_map"

\* C17 as stated: with initialisation mode 0 and a map file that opens and
\* parses, the initial map is the map loaded from the file, with every
\* marker's id, pose, update count and fixed flag.
C17_Mode0LoadsFileMap ==
  (Initialized /\ last.cxt.map_init_style_ = 0 /\ ~last.file.err)
  => (~last.null /\ SameMarkers(map, last.file.map))

\* C17 as the code has it: a node that does not build a map starts from the
\* whole map of a file that parses, whatever the mode; a node that builds a
\* map in mode 0 from a file that parses and holds the init marker id starts
\* from a new map (style by backend, configured marker length) that holds
\* only the file's marker of that id, made fixed.
C17_Mode0TakesInitMarkerFromFile ==
  Initialized =>
    /\ (~last.cxt.make_not_use_map_ /\ ~last.file.err)
       => (~last.null /\ map = last.file.map)
    /\ (/\ last.cxt.make_not_use_map_
        /\ last.cxt.map_init_style_ = 0
        /\ ~last.file.err
        /\ known(last.file.map, map_init_id_))
       => /\ ~last.null
          /\ map.map_style = IF last.cxt.sam_not_cv_ THEN "covariance"
                                                     ELSE "pose"
          /\ map.marker_length = marker_length
          /\ DOMAIN map.markers = {map_init_id_}
          /\ map.markers[map_init_id_] =
               [last.file.map.markers[map_init_id_] EXCEPT !.is_fixed = TRUE]

\* a map-building node in mode 0 has read a file of several markers whose
\* init marker is not fixed
C17_Witness ==
  /\ Initialized
  /\ last.cxt.make_not_use_map_
  /\ last.cxt.map_init_style_ = 0
  /\ ~last.file.err
  /\ known(last.file.map, map_init_id_)
  /\ ~last.file.map.markers[map_init_id_].is_fixed
  /\ Cardinality(DOMAIN last.file.map.markers) >= 2
  /\ DOMAIN map.markers = {map_init_id_}

OneConfiguredFixedMarker ==
  /\ ~last.null
  /\ DOMAIN map.markers = {map_init_id_}
  /\ map.markers[map_init_id_].is_fixed
  /\ map.markers[map_init_id_].id = map_init_id_
  /\ map.markers[map_init_id_].t_map_marker = map_init_transform_

FileFailsForMode0 ==
  last.file.err \/ ~known(last.file.map, map_init_id_)

Loaded == last.op = "from_YAML"

\* from_YAML returned no error, threw nothing and handed a map over
ParseSucceeded == last.error_msg = "" /\ ~last.raised /\ ~last.loaded.null

OnlyStyleAndCovEdited ==
  \A k \in 1..Len(last.edits) :
    last.edits[k].kind \in CovEditKinds \cup {"drop_map_style"}

\* some marker entry of the document lacks cov or has not 36 entries in it
SomeCovUnusable ==
  /\ IsMap(last.doc)
  /\ \E k \in 1..Len(last.doc.keys["markers"].items) :
       LET entry == last.doc.keys["markers"].items[k]
       IN  \/ "cov" \notin DOMAIN entry.keys
           \/ Len(entry.keys["cov"].items) # 36

StyleKeyNotPose ==
  /\ IsMap(last.doc)
  /\ "map_style" \in DOMAIN last.doc.keys
  /\ MapStyleOf(as_int(last.doc.keys["map_style"].text)) # "pose"

\* C20: parsing a file without a map_style key gives a Pose map, and its
\* marker entries are accepted with no cov key or any cov key, every
\* covariance being zero; with a map_style key that is not Pose, a marker
\* entry whose cov is missing or has not exactly 36 entries makes the parse
\* fail with an error and no map; to_YAML writes a marker's cov key exactly
\* when the map_style is not Pose.
C20_MapStyleAndCovKeys ==
  /\ (Loaded /\ OnlyStyleAndCovEdited /\ "map_style" \notin DOMAIN last.doc.keys) =>
       /\ ParseSucceeded
       /\ last.loaded.map.map_style = "pose"
       /\ DOMAIN last.loaded.map.markers = DOMAIN last.saved.markers
       /\ \A id \in DOMAIN last.loaded.map.markers :
            last.loaded.map.markers[id].t_map_marker.cov = ZeroCov
  /\ (Loaded /\ StyleKeyNotPose /\ SomeCovUnusable) =>
       /\ ~ParseSucceeded
       /\ last.loaded.null
       /\ OnlyStyleAndCovEdited =>
            last.error_msg \in {"marker.cov failed IsSequence()",
                                "marker.cov incorrect size"}
  /\ (last.op = "to_YAML" /\ last.edits = <<>>) =>
       \A k \in 1..Len(last.doc.keys["markers"].items) :
         ("cov" \in DOMAIN last.doc.keys["markers"].items[k].keys)
           <=> (last.saved.map_style # "pose")

\* a file written from a Covariance map with two or more markers lost its
\* map_style key and the cov key of one entry, and was read as a Pose map
C20_Witness ==
  /\ Loaded
  /\ Cardinality(DOMAIN last.saved.markers) >= 2
  /\ last.saved.map_style = "covariance"
  /\ OnlyStyleAndCovEdited
  /\ "map_style" \notin DOMAIN last.doc.keys
  /\ SomeCovUnusable
  /\ ParseSucceeded

\* a scalar node whose text is a number
NumberNode(n) == IsScalar(n) /\ convertible(n.text)

\* a sequence node of exactly len numbers
NumbersNode(n, len) ==
  /\ IsSequence(n)
  /\ Len(n.items) = len
  /\ \A k \in 1..len : NumberNode(n.items[k])

\* the document has the layout of a map file: marker_length, markers and, per
\* marker, id, u, f, xyz, rpy and, under a map_style other than Pose, cov
WellFormedFile(doc) ==
  /\ IsMap(doc)
  /\ ("map_style" \in DOMAIN doc.keys => NumberNode(doc.keys["map_style"]))
  /\ NumberNode(child(doc, "marker_length"))
  /\ IsSequence(child(doc, "markers"))
  /\ \A k \in 1..Len(doc.keys["markers"].items) :
       LET entry == doc.keys["markers"].items[k]
       IN  /\ IsMap(entry)
           /\ \A key \in {"id", "u", "f"} : NumberNode(child(entry, key))
           /\ NumbersNode(child(entry, "xyz"), 3)
           /\ NumbersNode(child(entry, "rpy"), 3)
           /\ ("map_style" \in DOMAIN doc.keys
                 /\ MapStyleOf(as_int(doc.keys["map_style"].text)) # "pose")
                => NumbersNode(child(entry, "cov"), 36)

\* C21: for every malformed map file from_YAML returns a non-empty error
\* string and leaves the caller's map as it was; it returns the empty string
\* exactly when the caller's map was replaced by the fully parsed map.
C21_MalformedGivesErrorString ==
  Loaded =>
    /\ ~last.raised
    /\ ~WellFormedFile(last.doc) =>
         (last.error_msg # "" /\ last.loaded = NullMap)
    /\ last.error_msg = "" <=> ~last.loaded.null

\* the observations of the last call whose marker the map knew, in batch order
KnownObs == SelectSeq(last.observations, LAMBDA o : known(map0, o.id))

GraphBuilt(op) == last.op = op /\ last.built

Factors(type) == SelectSeq(last.g.graph, LAMBDA f : f.type = type)

\* C22 as stated: the graph of the factor-graph localize has the camera as
\* its only variable, initialised with the geometric estimate, and exactly 4
\* resectioning factors per observation of a known marker, nothing else.
C22_LocalizeGraphResectioning ==
  GraphBuilt("localize") =>
    /\ DOMAIN last.g.initial = {camera_key_}
    /\ Len(last.g.graph) = 4 * Len(KnownObs)
    /\ \A j \in 1..Len(last.g.graph) :
         /\ last.g.graph[j].type = "resectioning"
         /\ last.g.graph[j].key = camera_key_

\* C22 amended: for a batch of distinct ids the graph of the factor-graph
\* localize has the camera variable, initialised with the geometric estimate,
\* and one variable per observed known marker, initialised with the stored
\* pose; per observation of a known marker it has exactly one Between(marker,
\* camera) factor followed by one Prior factor on the marker, in batch order;
\* unknown markers add nothing and there is no other factor or variable.
C22_LocalizeGraphBetweenAndPrior ==
  (GraphBuilt("localize") /\ DistinctIds(last.observations)) =>
    /\ ~last.g.raised
    /\ map = map0
    /\ DOMAIN last.g.initial =
         {camera_key_} \cup {marker_key(KnownObs[i].id) : i \in 1..Len(KnownObs)}
    /\ last.g.initial[camera_key_] = cv_solve_t_map_camera(last.observations, map0).tf
    /\ Len(last.g.graph) = 2 * Len(KnownObs)
    /\ \A i \in 1..Len(KnownObs) :
         LET mk == marker_key(KnownObs[i].id)
             between == last.g.graph[2 * i - 1]
             prior == last.g.graph[2 * i]
         IN  /\ between.type = "between"
             /\ between.key = mk
             /\ between.key2 = camera_key_
             /\ prior.type = "prior"
             /\ prior.key = mk
             /\ prior.mean = map0.markers[KnownObs[i].id].t_map_marker.tf
             /\ last.g.initial[mk] = map0.markers[KnownObs[i].id].t_map_marker.tf

\* a localize graph was built for a batch of one known and one unknown marker
C22_Witness ==
  /\ GraphBuilt("localize")
  /\ DistinctIds(last.observations)
  /\ Len(last.observations) = 2
  /\ Len(KnownObs) = 1
  /\ Len(last.g.graph) = 2

\* C23: the graph built for the factor-graph update_map on a batch of
\* distinct ids has one variable per observed marker plus the camera
\* variable, each with one initial value; one Between(marker, camera) factor
\* per observation; one Prior factor per observation of a known marker and
\* none for an unknown one; a known marker starts at its stored pose and an
\* unknown one at t_map_camera * inverse(t_marker_camera).
C23_UpdateGraphShape ==
  (GraphBuilt("update_map") /\ DistinctIds(last.observations)) =>
    /\ ~last.g.raised
    /\ DOMAIN last.g.initial =
         {update_camera_key} \cup {marker_key(id) : id \in ObsIds(last.observations)}
    /\ last.g.initial[update_camera_key] = last.t_map_camera.tf
    /\ Len(Factors("between")) = Len(last.observations)
    /\ Len(Factors("prior")) = Len(KnownObs)
    /\ Len(last.g.graph) = Len(last.observations) + Len(KnownObs)
    /\ \A i \in 1..Len(last.observations) :
         LET o == last.observations[i]
             mk == marker_key(o.id)
             t_marker_camera == sam_solve_camera_f_marker(o, map0.marker_length).tf
         IN  /\ Factors("between")[i].key = mk
             /\ Factors("between")[i].key2 = update_camera_key
             /\ Factors("between")[i].mean = t_marker_camera
             /\ Cardinality({j \in 1..Len(last.g.graph) :
                              /\ last.g.graph[j].type = "prior"
                              /\ last.g.graph[j].key = mk})
                  = IF known(map0, o.id) THEN 1 ELSE 0
             /\ last.g.initial[mk] =
                  IF known(map0, o.id)
                  THEN map0.markers[o.id].t_map_marker.tf
                  ELSE last.t_map_camera.tf + (0 - t_marker_camera)

\* an update graph was built for a known and an unknown marker seen from a
\* camera away from the origin, the unknown marker not straight ahead
C23_Witness ==
  /\ GraphBuilt("update_map")
  /\ DistinctIds(last.observations)
  /\ Len(last.observations) = 2
  /\ Len(KnownObs) = 1
  /\ last.t_map_camera.tf # 0
  /\ \E i \in 1..2 :
       /\ ~known(map0, last.observations[i].id)
       /\ sam_solve_camera_f_marker(last.observations[i], map0.marker_length).tf # 0

\* the Prior factors of the last graph, one per observation of a known marker
PriorOf(i) == Factors("prior")[i]

PriorsBuilt ==
  /\ last.op \in {"localize", "update_map"}
  /\ last.built
  /\ DistinctIds(last.observations)

\* C24 as stated: the prior of a known marker is constrained exactly when the
\* marker is fixed, or the map_style is Pose, or entry (0,0) of the stored
\* covariance (the x variance) is zero; otherwise it is a Gaussian with the
\* stored covariance.
C24_ConstrainedIffStoredXVarianceZero ==
  PriorsBuilt =>
    \A i \in 1..Len(KnownObs) :
      LET marker == map0.markers[KnownObs[i].id]
      IN  /\ (PriorOf(i).noise = "constrained") <=>
               \/ marker.is_fixed
               \/ map0.map_style = "pose"
               \/ marker.t_map_marker.cov[1] = 0
          /\ PriorOf(i).noise # "constrained" =>
               /\ PriorOf(i).noise = "gaussian"
               /\ PriorOf(i).cov = to_cov_sam(marker.t_map_marker.cov)

\* C24 amended: the prior of a known marker is constrained exactly when the
\* marker is fixed, or the map_style is Pose, or entry (0,0) of the
\* covariance converted to the solver's order is zero, which is entry (3,3)
\* of the stored covariance (the roll variance); otherwise it is a Gaussian
\* with the stored covariance converted to the solver's order.
C24_ConstrainedIffConvertedFirstVarianceZero ==
  PriorsBuilt =>
    \A i \in 1..Len(KnownObs) :
      LET marker == map0.markers[KnownObs[i].id]
      IN  /\ PriorOf(i).key = marker_key(marker.id)
          /\ (PriorOf(i).noise = "constrained") <=>
               \/ marker.is_fixed
               \/ map0.map_style = "pose"
               \/ marker.t_map_marker.cov[3 * 6 + 3 + 1] = 0
          /\ PriorOf(i).noise # "constrained" =>
               /\ PriorOf(i).noise = "gaussian"
               /\ PriorOf(i).cov = to_cov_sam(marker.t_map_marker.cov)

\* a prior was built for a free marker of a Covariance map whose stored x
\* variance is zero and whose stored roll variance is not
C24_Witness ==
  /\ PriorsBuilt
  /\ map0.map_style = "covariance"
  /\ \E i \in 1..Len(KnownObs) :
       LET marker == map0.markers[KnownObs[i].id]
       IN  /\ ~marker.is_fixed
           /\ marker.t_map_marker.cov[1] = 0
           /\ marker.t_map_marker.cov[3 * 6 + 3 + 1] # 0
           /\ PriorOf(i).noise = "gaussian"

\* the matrix that has entry (r, c) of M at (p[r], p[c]), rows and columns
\* counted from 0
Permuted(M, p) ==
  [k \in 1..36 |->
     LET R == (k - 1) \div 6
         C == (k - 1) % 6
         r == CHOOSE x \in 0..5 : p[x + 1] = R
         c == CHOOSE x \in 0..5 : p[x + 1] = C
     IN  M[r * 6 + c + 1]]

\* C25: to_cov_sam and to_cov_type both move entry (r, c) to (p[r], p[c])
\* with p = [3,4,5,0,1,2], and each undoes the other:
\* to_cov_type(to_cov_sam(C)) = C and to_cov_sam(to_cov_type(S)) = S.
C25_CovConversionsInverse ==
  /\ last.op \in {"to_cov_sam", "to_cov_type"} =>
       last.out = Permuted(last.C, <<3, 4, 5, 0, 1, 2>>)
  /\ last.op \in {"sam_then_type", "type_then_sam"} => last.out = last.C

\* a matrix of 36 different entries went through to_cov_sam, which changed
\* it, and came back unchanged through to_cov_type
C25_Witness ==
  /\ last.op = "sam_then_type"
  /\ last.C = DistinctCov
  /\ to_cov_sam(last.C) # last.C
  /\ last.out = last.C

\* C26: in the geometric solve_t_map_camera the 3D and the 2D list have the
\* same length 4k, k the number of observations whose marker is known; entry
\* 4(i-1)+j of both lists comes from the i-th such observation in batch order
\* and from canonical corner j; unknown markers contribute nothing.
C26_CorrespondencesAligned ==
  last.op = "corners" =>
    /\ Len(last.all_corners_f_map) = 4 * Len(KnownObs)
    /\ Len(last.all_corners_f_image) = 4 * Len(KnownObs)
    /\ \A i \in 1..Len(KnownObs) : \A j \in 1..4 :
         /\ last.all_corners_f_image[4 * (i - 1) + j] = KnownObs[i].corners[j]
         /\ last.all_corners_f_map[4 * (i - 1) + j] =
              append_corners_f_map(map0.markers[KnownObs[i].id].t_map_marker,
                                   map0.marker_length)[j]

\* the lists were collected for a batch whose first marker is unknown and
\* whose second is known
C26_Witness ==
  /\ last.op = "corners"
  /\ Len(last.observations) = 2
  /\ ~known(map0, last.observations[1].id)
  /\ known(map0, last.observations[2].id)
  /\ Len(last.all_corners_f_image) = 4
  /\ last.all_corners_f_image[1] = last.observations[2].corners[1]

\* C27: solve_t_map_camera of either backend leaves the map as it found it:
\* marker ids, poses, covariances, update counts, fixed flags, marker_length
\* and map_style are the same after the call as before.
C27_LocalizeLeavesMap ==
  last.op = "localize" =>
    /\ map.marker_length = last.pre.marker_length
    /\ map.map_style = last.pre.map_style
    /\ DOMAIN map.markers = DOMAIN last.pre.markers
    /\ \A id \in DOMAIN last.pre.markers :
         /\ map.markers[id].t_map_marker = last.pre.markers[id].t_map_marker
         /\ map.markers[id].update_count = last.pre.markers[id].update_count
         /\ map.markers[id].is_fixed = last.pre.markers[id].is_fixed

\* the factor-graph localize returned a valid pose for a batch that shows a
\* known marker that is not fixed and a marker the map does not hold
C27_Witness ==
  /\ last.op = "localize"
  /\ last.sam
  /\ last.ret.valid
  /\ \E i \in 1..Len(last.observations) : ~known(last.pre, last.observations[i].id)
  /\ \E i \in 1..Len(last.observations) :
       /\ known(last.pre, last.observations[i].id)
       /\ ~last.pre.markers[last.observations[i].id].is_fixed

\* C28: in the map-building node, once a map exists, a step of handling an
\* observation batch changes the map only if the batch has at least 2
\* observations and localize returned a valid pose for it; for a batch of 0
\* or 1 observation or with no known marker the map stays as it was, with
\* either backend.
C28_MapChangesOnlyAfterValidLocalize ==
  [][(~node.map_null /\ map' # map) =>
       /\ node.executing = "obs"
       /\ Len(node.observations) >= 2
       /\ node.t_map_camera.valid
       /\ node.pc \in {"cv_loop", "sam_write"}]_vars

\* a callback that localized a batch of two observations has changed the
\* map of a node that started with one
C28_Witness ==
  /\ ~node.map_null
  /\ node.executing = "none"
  /\ node.batches > 0
  /\ map # map0

====
